---------------------------- MODULE Spec2Model ----------------------------
(***************************************************************************)
(* A model of the pyvaem driver for the Festo VAEM valve manifold:         *)
(*   - the parameter-access frame codec of pyvaem/vaemHelper.py            *)
(*     (VaemRegisters.to_list / VaemRegisters.from_list),                  *)
(*   - the session of pyvaem/VaemDriver.py (handle_error_response and the  *)
(*     public operations of vaemDriver), run by a set of callers against   *)
(*     one device that answers every register exchange.                    *)
(*                                                                         *)
(* Numbers.  A transferValue is a 64-bit unsigned integer.  It is kept     *)
(* here as its four base-65536 digits, most significant first, so that     *)
(* <<3, 4, 5, 6>> is 0x0003000400050006.  Every other field, byte and      *)
(* register word is an integer.  Register words are 16-bit (the transport  *)
(* is Modbus), which is what makes the shifted sum of                      *)
(* _deconstruct_registers a digit-wise assembly.                           *)
(***************************************************************************)
EXTENDS Integers, Sequences, FiniteSets, TLC

VARIABLES
    \* ---- codec harness: one application of to_list / from_list
    cmode,      \* "enc": a frame is encoded and decoded back; "dec": a word list is decoded; "off"
    cframe,     \* the frame given to to_list
    cwords,     \* the word list given to from_list
    cenc,       \* what to_list returned
    cdec,       \* what from_list returned
    cstep,      \* "start", "encoded", "decoded"
    \* ---- the session and the device
    init_done,  \* vaemDriver._init_done
    mask,       \* the device's selection mask (parameter SelectValve)
    pc,         \* per caller: where its current call stands
    op,         \* per caller: the public operation it is running
    arg,        \* per caller: valve_id of the call
    resp,       \* per caller: decoded response of the read transaction of select/deselect
    result,     \* per caller: the value func(self, ...) returned to the wrapper
    cur,        \* per caller: errorRet the innermost wrapper is inspecting
    depth,      \* per caller: nested clear_error calls on the stack
    outcome,    \* per caller: how the call ended
    xlog,       \* per caller: the exchanges of the current call, in order
    expectBits, \* ghost: bit numbers selected according to the calls that returned
    scen,       \* ghost: progress of the scenario select 3, select 7, deselect 3 from mask 0
    budget,     \* environment: exchanges that may still fail or carry an error
    ctor,       \* vaemDriver.__init__: "none" not called yet, "running", "done", "raised"
    attempts,   \* client.connect() calls made by __init__
    initlog,    \* ghost: the exchanges __init__ made, kept once it has ended
    held,       \* per caller: the list of valve states it passes to select_valves;
                \* read_valves_state's return value replaces it
    settings,   \* per caller: the (parameter, value) entries of the call still to be handled
    \* ---- helper harness: one application of a pure function of vaemHelper.py
    \* or of the codec of vaem/VaemDriver.py
    hfun,       \* "parse_statusword", "ValveSettings", "_construct_frame",
                \* "_deconstruct_frame" or "off"
    harg,       \* the argument: a status word, the fields given to ValveSettings,
                \* a frame, or a word list
    hret,       \* what the function returned
    hpc         \* "start", "built" (a ValveSettings exists), "returned"

codecVars == <<cmode, cframe, cwords, cenc, cdec, cstep>>
sessionVars == <<ctor, attempts, initlog, held, settings>>
driverVars == <<init_done, mask, pc, op, arg, resp, result, cur, depth, outcome,
                xlog, expectBits, scen, budget, ctor, attempts, initlog, held, settings>>
helperVars == <<hfun, harg, hret, hpc>>
vars == <<cmode, cframe, cwords, cenc, cdec, cstep,
          init_done, mask, pc, op, arg, resp, result, cur, depth, outcome,
          xlog, expectBits, scen, budget, ctor, attempts, initlog, held, settings,
          hfun, harg, hret, hpc>>

-----------------------------------------------------------------------------
(* Bounds of the model *)

\* longest word list handed to from_list
MaxWords == 7

\* deepest nesting of clear_error calls before the interpreter's recursion
\* limit ends the call with RecursionError
MaxRecursion == 2

\* how many exchanges of a run the environment lets fail or answer with an error
MaxFaults == 3

-----------------------------------------------------------------------------
(* Integer helpers: Python's operators on non-negative integers *)

RECURSIVE Pow2(_)
Pow2(n) == IF n = 0 THEN 1 ELSE 2 * Pow2(n - 1)

\* a & b
RECURSIVE BitAnd(_, _)
BitAnd(a, b) ==
    IF a = 0 \/ b = 0 THEN 0
    ELSE (a % 2) * (b % 2) + 2 * BitAnd(a \div 2, b \div 2)

\* a | b
RECURSIVE BitOr(_, _)
BitOr(a, b) ==
    IF a = 0 THEN b
    ELSE IF b = 0 THEN a
    ELSE (IF a % 2 = 1 \/ b % 2 = 1 THEN 1 ELSE 0) + 2 * BitOr(a \div 2, b \div 2)

\* a & ~b, for a, b >= 0 (~b is negative in Python; the result is a with b's bits cleared)
RECURSIVE BitAndNot(_, _)
BitAndNot(a, b) ==
    IF a = 0 THEN 0
    ELSE (a % 2) * (1 - (b % 2)) + 2 * BitAndNot(a \div 2, b \div 2)

\* a >> n  and  a << n
ShiftRight(a, n) == a \div Pow2(n)
ShiftLeft(a, n) == a * Pow2(n)

\* Python's seq[i]: 0-based, a negative index counts from the end
PyIndexOK(seq, i) == (-Len(seq) <= i) /\ (i < Len(seq))
PyIndex(seq, i) == IF i >= 0 THEN seq[i + 1] ELSE seq[Len(seq) + i + 1]

\* 64-bit values as four 16-bit digits, most significant first
U64(n) == <<0, 0, n \div 65536, n % 65536>>
Or64(a, b) == [i \in 1..4 |-> BitOr(a[i], b[i])]
AndNot64(a, b) == [i \in 1..4 |-> BitAndNot(a[i], b[i])]
And64(a, b) == [i \in 1..4 |-> BitAnd(a[i], b[i])]
\* the value as an integer when it fits 16 bits, else -1
Small64(v) == IF v[1] = 0 /\ v[2] = 0 /\ v[3] = 0 THEN v[4] ELSE -1

-----------------------------------------------------------------------------
(* vaemHelper.py: the frame codec *)

VaemRegisters(a, d, pi, psi, e, tv) ==
    [access |-> a, dataType |-> d, paramIndex |-> pi, paramSubIndex |-> psi,
     errorRet |-> e, transferValue |-> tv]

\* the value of a frame-valued variable that holds no frame
NullFrame == VaemRegisters(-1, -1, -1, -1, -1, <<-1, -1, -1, -1>>)

\* What a call gives back: its value, or the exception it raised
Returns(v) == [exc |-> "none", val |-> v]
RaisesFrame(e) == [exc |-> e, val |-> NullFrame]
RaisesWords(e) == [exc |-> e, val |-> <<>>]
NoResultFrame == [exc |-> "pending", val |-> NullFrame]
NoResultWords == [exc |-> "pending", val |-> <<>>]

\* struct.pack(">BBHBBQ", ...): 14 bytes, or struct.error when a field does
\* not fit its format
StructFits(r) ==
    /\ r.access \in 0..255
    /\ r.dataType \in 0..255
    /\ r.paramIndex \in 0..65535
    /\ r.paramSubIndex \in 0..255
    /\ r.errorRet \in 0..255
    /\ \A i \in 1..4 : r.transferValue[i] \in 0..65535

struct_pack(r) ==
    <<r.access, r.dataType,
      r.paramIndex \div 256, r.paramIndex % 256,
      r.paramSubIndex, r.errorRet,
      r.transferValue[1] \div 256, r.transferValue[1] % 256,
      r.transferValue[2] \div 256, r.transferValue[2] % 256,
      r.transferValue[3] \div 256, r.transferValue[3] % 256,
      r.transferValue[4] \div 256, r.transferValue[4] % 256>>

\* mutant: the two bytes of every word swapped (little-endian words)
construct_registers_swapped(vaem_reg) ==
    IF ~StructFits(vaem_reg) THEN RaisesWords("struct.error")
    ELSE LET tmp == struct_pack(vaem_reg)
         IN  Returns([k \in 1..(Len(tmp) \div 2) |->
                 ShiftLeft(PyIndex(tmp, 2 * (k - 1) + 1), 8) + PyIndex(tmp, 2 * (k - 1))])

\* [(tmp[i] << 8) + tmp[i + 1] for i in range(0, len(tmp) - 1, 2)]
construct_registers(vaem_reg) ==
    IF ~StructFits(vaem_reg) THEN RaisesWords("struct.error")
    ELSE LET tmp == struct_pack(vaem_reg)
         IN  Returns([k \in 1..(Len(tmp) \div 2) |->
                 ShiftLeft(PyIndex(tmp, 2 * (k - 1)), 8) + PyIndex(tmp, 2 * (k - 1) + 1)])

to_list(vaem_reg) == construct_registers(vaem_reg)

\* mutant: the last four words taken with the last one most significant
TransferValueOf_forward(registers) ==
    [k \in 1..4 |-> PyIndex(registers, Len(registers) - k)]

\* sum(registers[len(registers) - 1 - i] << (i * 16) for i in range(4)):
\* digit i (from the least significant) is registers[len - 1 - i]
TransferValueOf(registers) ==
    [k \in 1..4 |-> PyIndex(registers, Len(registers) - 1 - (4 - k))]

\* mutant: the high and the low byte of word 0 exchanged
deconstruct_registers_bytes(registers) ==
    IF ~(PyIndexOK(registers, 0) /\ PyIndexOK(registers, 1) /\ PyIndexOK(registers, 2))
    THEN RaisesFrame("IndexError")
    ELSE Returns(VaemRegisters(
            BitAnd(PyIndex(registers, 0), 255),
            ShiftRight(BitAnd(PyIndex(registers, 0), 65280), 8),
            PyIndex(registers, 1),
            ShiftRight(BitAnd(PyIndex(registers, 2), 65280), 8),
            BitAnd(PyIndex(registers, 2), 255),
            TransferValueOf(registers)))

deconstruct_registers(registers) ==
    IF ~(PyIndexOK(registers, 0) /\ PyIndexOK(registers, 1) /\ PyIndexOK(registers, 2))
    THEN RaisesFrame("IndexError")
    ELSE IF \E i \in 0..3 : ~PyIndexOK(registers, Len(registers) - 1 - i)
    THEN RaisesFrame("IndexError")
    ELSE Returns(VaemRegisters(
            ShiftRight(BitAnd(PyIndex(registers, 0), 65280), 8),
            BitAnd(PyIndex(registers, 0), 255),
            PyIndex(registers, 1),
            ShiftRight(BitAnd(PyIndex(registers, 2), 65280), 8),
            BitAnd(PyIndex(registers, 2), 255),
            TransferValueOf(registers)))

from_list(registers) ==
    IF Len(registers) = 0
    THEN RaisesFrame("ValueError")
    ELSE deconstruct_registers(registers)

-----------------------------------------------------------------------------
(* The codec harness: inputs drawn from bounded sets, one application each *)

AccessVals == {0, 1, 255}
DataTypeVals == {1, 255}
ParamIndexVals == {2, 19, 65535}
SubIndexVals == {-1, 0, 7, 255}
ErrorVals == {0, 3, 200}
DigitVals(k) ==
    CASE k = 1 -> {0, 3, 65535}
      [] k = 2 -> {0, 4, 255}
      [] k = 3 -> {1, 5, 256}
      [] OTHER -> {0, 6, 65535}

SampleValues64 ==
    {<<a, b, c, d>> : a \in DigitVals(1), b \in DigitVals(2),
                      c \in DigitVals(3), d \in DigitVals(4)}

SampleFrames ==
    {VaemRegisters(a, d, pi, psi, e, tv) :
        a \in AccessVals, d \in DataTypeVals, pi \in ParamIndexVals,
        psi \in SubIndexVals, e \in ErrorVals, tv \in SampleValues64}

\* the words tried at position i of a word list (1-based)
WordVals(i) == {i, 65535, 256 * i + (9 - i)}

RECURSIVE WordListsOfLen(_)
WordListsOfLen(n) ==
    IF n = 0 THEN {<<>>}
    ELSE {Append(w, x) : w \in WordListsOfLen(n - 1), x \in WordVals(n)}

SampleWordLists == UNION {WordListsOfLen(n) : n \in 0..MaxWords}

InitCodecVars ==
    \/ /\ cmode = "enc"
       /\ cframe \in SampleFrames
       /\ cwords = <<>>
       /\ cenc = NoResultWords /\ cdec = NoResultFrame /\ cstep = "start"
    \/ /\ cmode = "dec"
       /\ cframe = NullFrame
       /\ cwords \in SampleWordLists
       /\ cenc = NoResultWords /\ cdec = NoResultFrame /\ cstep = "start"

CodecOff ==
    /\ cmode = "off" /\ cframe = NullFrame /\ cwords = <<>>
    /\ cenc = NoResultWords /\ cdec = NoResultFrame /\ cstep = "start"

\* f.to_list()
ToList ==
    /\ cmode = "enc" /\ cstep = "start"
    /\ cenc' = to_list(cframe)
    /\ cstep' = "encoded"
    /\ UNCHANGED <<cmode, cframe, cwords, cdec>>
    /\ UNCHANGED <<driverVars, helperVars>>

\* VaemRegisters.from_list(f.to_list())
FromListOfToList ==
    /\ cmode = "enc" /\ cstep = "encoded"
    /\ cenc.exc = "none"
    /\ cdec' = from_list(cenc.val)
    /\ cstep' = "decoded"
    /\ UNCHANGED <<cmode, cframe, cwords, cenc>>
    /\ UNCHANGED <<driverVars, helperVars>>

\* VaemRegisters.from_list(words)
FromList ==
    /\ cmode = "dec" /\ cstep = "start"
    /\ cdec' = from_list(cwords)
    /\ cstep' = "decoded"
    /\ UNCHANGED <<cmode, cframe, cwords, cenc>>
    /\ UNCHANGED <<driverVars, helperVars>>

-----------------------------------------------------------------------------
(* vaemHelper.py: identifiers and tables *)

ControlWord == 1
StatusWord == 2
OperatingMode == 9
SaveParameters == 11
SelectValve == 19

Read == 0
Write == 1

UINT8 == 1
UINT16 == 2
UINT32 == 3

StartValves == 1
StopValves == 4
ResetErrors == 8

OpMode1 == 0

\* __init__: "for _ in range(2)"
ConnectAttempts == 2

\* the trigger value save_settings writes
SaveTrigger == 99999

\* mutant: the bit of the valve one place too high (1 << valve_id)
vaemValveIndex_shifted(valve_id) == Pow2(valve_id)

vaemValveIndex(valve_id) ==
    CASE valve_id = 1 -> 1
      [] valve_id = 2 -> 2
      [] valve_id = 3 -> 4
      [] valve_id = 4 -> 8
      [] valve_id = 5 -> 16
      [] valve_id = 6 -> 32
      [] valve_id = 7 -> 64
      [] valve_id = 8 -> 128

create_select_valve_registers(operation, valve_code) ==
    VaemRegisters(operation, UINT8, SelectValve, 0, 0, valve_code)

create_controlword_registers(operation, control_word) ==
    VaemRegisters(operation, UINT16, ControlWord, 0, 0, U64(control_word))

\* VaemIndex: the setting parameters, besides SelectValve
NominalVoltage == 4
InrushCurrent == 5
HoldingCurrent == 6
ResponseTime == 7
PickUpTime == 8
TimeDelay == 22
HitNHold == 46

\* VaemIndex: member name -> value
VaemIndexNames ==
    {"ControlWord", "StatusWord", "NominalVoltage", "InrushCurrent", "HoldingCurrent",
     "ResponseTime", "PickUpTime", "OperatingMode", "SaveParameters", "SelectValve",
     "TimeDelay", "HitNHold"}

VaemIndex(name) ==
    CASE name = "ControlWord" -> ControlWord
      [] name = "StatusWord" -> StatusWord
      [] name = "NominalVoltage" -> NominalVoltage
      [] name = "InrushCurrent" -> InrushCurrent
      [] name = "HoldingCurrent" -> HoldingCurrent
      [] name = "ResponseTime" -> ResponseTime
      [] name = "PickUpTime" -> PickUpTime
      [] name = "OperatingMode" -> OperatingMode
      [] name = "SaveParameters" -> SaveParameters
      [] name = "SelectValve" -> SelectValve
      [] name = "TimeDelay" -> TimeDelay
      [] name = "HitNHold" -> HitNHold

\* Setting values go up to 2^32, beyond the integers of the model checker: a
\* value n is kept as <<n div 65536, n mod 65536>>, so that <<65536, 0>> is
\* 2^32 and <<-1, 65535>> is -1
Wide(n) == <<n \div 65536, n % 65536>>
Two32 == <<65536, 0>>
WideLess(a, b) == a[1] < b[1] \/ (a[1] = b[1] /\ a[2] < b[2])
WidePred(a) == IF a[2] = 0 THEN <<a[1] - 1, 65535>> ELSE <<a[1], a[2] - 1>>
\* value in range(r[1], r[2])
InRange(value, r) == ~WideLess(value, r[1]) /\ WideLess(value, r[2])
\* the value as a 64-bit transferValue; a negative one fits no unsigned field
WideTo64(a) ==
    IF a[1] < 0 THEN <<-1, -1, -1, -1>>
    ELSE <<0, a[1] \div 65536, a[1] % 65536, a[2]>>

\* VaemRanges: a dict, setting name -> (min, max + 1)
VaemRangesKeys ==
    {"NominalVoltage", "InrushCurrent", "HoldingCurrent", "ResponseTime",
     "PickUpTime", "TimeDelay", "HitNHold", "SelectValve"}

VaemRanges ==
    [name \in VaemRangesKeys |->
        CASE name = "NominalVoltage" -> <<Wide(8000), Wide(24000 + 1)>>
          [] name = "InrushCurrent" -> <<Wide(20), Wide(1000 + 1)>>
          [] name = "HoldingCurrent" -> <<Wide(20), Wide(400 + 1)>>
          [] name = "ResponseTime" -> <<Wide(1), Two32>>
          [] name = "PickUpTime" -> <<Wide(1), Wide(500 + 1)>>
          [] name = "TimeDelay" -> <<Wide(0), Two32>>
          [] name = "HitNHold" -> <<Wide(0), Wide(1000 + 1)>>
          [] name = "SelectValve" -> <<Wide(0), Wide(255 + 1)>>]

\* the attributes a dict object has (its methods); its keys are not among them
DictAttributes ==
    {"clear", "copy", "fromkeys", "get", "items", "keys", "pop", "popitem",
     "setdefault", "update", "values"}

\* mutant: the name looked up among the keys of VaemRanges
hasattr_VaemRanges_bykey(name) == name \in VaemRangesKeys

\* hasattr(VaemRanges, name), VaemRanges being a dict
hasattr_VaemRanges(name) == name \in DictAttributes

\* SETTING_DATA_TYPES
SettingDataTypeKeys == VaemRangesKeys

SETTING_DATA_TYPES ==
    [name \in SettingDataTypeKeys |->
        CASE name = "NominalVoltage" -> UINT16
          [] name = "ResponseTime" -> UINT32
          [] name = "InrushCurrent" -> UINT16
          [] name = "HoldingCurrent" -> UINT16
          [] name = "PickUpTime" -> UINT32
          [] name = "TimeDelay" -> UINT32
          [] name = "HitNHold" -> UINT32
          [] name = "SelectValve" -> UINT8]

\* create_setting_registers(setting, valve, operation, value), for a setting
\* that SETTING_DATA_TYPES lists
create_setting_registers(setting, valve, operation, value) ==
    VaemRegisters(operation, SETTING_DATA_TYPES[setting], VaemIndex(setting), valve, 0,
                  WideTo64(value))

\* VaemDriver.py: the keys of error_codes
error_codes == {0, 34, 35, 36, 37, 41, 42, 43, 44, 93, 94, 95, 96, 97}

-----------------------------------------------------------------------------
(* vaemHelper.py: the status word and the valve settings record *)

\* parse_statusword with the Error flag taken from bit 2
parse_statusword_bit2(statusWord) ==
    [Status |-> BitAnd(statusWord, 1),
     Error |-> ShiftRight(BitAnd(statusWord, 4), 2),
     Readiness |-> ShiftRight(BitAnd(statusWord, 16), 4),
     OperatingMode |-> ShiftRight(BitAnd(statusWord, 192), 6),
     Valve1 |-> ShiftRight(BitAnd(statusWord, 256), 8),
     Valve2 |-> ShiftRight(BitAnd(statusWord, 512), 9),
     Valve3 |-> ShiftRight(BitAnd(statusWord, 1024), 10),
     Valve4 |-> ShiftRight(BitAnd(statusWord, 2048), 11),
     Valve5 |-> ShiftRight(BitAnd(statusWord, 4096), 12),
     Valve6 |-> ShiftRight(BitAnd(statusWord, 8192), 13),
     Valve7 |-> ShiftRight(BitAnd(statusWord, 16384), 14),
     Valve8 |-> ShiftRight(BitAnd(statusWord, 32768), 15)]

\* parse_statusword(statusWord), for an integer statusWord
parse_statusword(statusWord) ==
    [Status |-> BitAnd(statusWord, 1),
     Error |-> ShiftRight(BitAnd(statusWord, 8), 3),
     Readiness |-> ShiftRight(BitAnd(statusWord, 16), 4),
     OperatingMode |-> ShiftRight(BitAnd(statusWord, 192), 6),
     Valve1 |-> ShiftRight(BitAnd(statusWord, 256), 8),
     Valve2 |-> ShiftRight(BitAnd(statusWord, 512), 9),
     Valve3 |-> ShiftRight(BitAnd(statusWord, 1024), 10),
     Valve4 |-> ShiftRight(BitAnd(statusWord, 2048), 11),
     Valve5 |-> ShiftRight(BitAnd(statusWord, 4096), 12),
     Valve6 |-> ShiftRight(BitAnd(statusWord, 8192), 13),
     Valve7 |-> ShiftRight(BitAnd(statusWord, 16384), 14),
     Valve8 |-> ShiftRight(BitAnd(statusWord, 32768), 15)]

\* the fields of the dataclass ValveSettings
ValveSettingsFields ==
    {"NominalVoltage", "ResponseTime", "TimeDelay", "PickUpTime", "InrushCurrent",
     "HitNHold", "HoldingCurrent"}

\* the field defaults, with the defaults of ResponseTime and PickUpTime exchanged
ValveSettingsDefault_swapped(field) ==
    CASE field = "NominalVoltage" -> 24000
      [] field = "ResponseTime" -> 125
      [] field = "TimeDelay" -> 0
      [] field = "PickUpTime" -> 500
      [] field = "InrushCurrent" -> 300
      [] field = "HitNHold" -> 100
      [] field = "HoldingCurrent" -> 100

\* the field defaults of ValveSettings
ValveSettingsDefault(field) ==
    CASE field = "NominalVoltage" -> 24000
      [] field = "ResponseTime" -> 500
      [] field = "TimeDelay" -> 0
      [] field = "PickUpTime" -> 125
      [] field = "InrushCurrent" -> 300
      [] field = "HitNHold" -> 100
      [] field = "HoldingCurrent" -> 100

\* ValveSettings(**data), for data naming fields only: the generated __init__
ValveSettings(data) ==
    [field \in ValveSettingsFields |->
        IF field \in DOMAIN data THEN data[field] ELSE ValveSettingsDefault(field)]

\* ValveSettings.from_dict(data)
from_dict(data) == IF DOMAIN data = {} THEN ValveSettings(<<>>) ELSE ValveSettings(data)

\* ValveSettings._FIELD_TO_ENUM: field name -> VaemIndex value
FIELD_TO_ENUM ==
    [field \in ValveSettingsFields |->
        CASE field = "NominalVoltage" -> NominalVoltage
          [] field = "ResponseTime" -> ResponseTime
          [] field = "TimeDelay" -> TimeDelay
          [] field = "PickUpTime" -> PickUpTime
          [] field = "InrushCurrent" -> InrushCurrent
          [] field = "HitNHold" -> HitNHold
          [] field = "HoldingCurrent" -> HoldingCurrent]

\* self.to_enum_dict(): a dict keyed by VaemIndex; of two fields with the same
\* identifier the later one of __dict__ would win, the table has no such pair
to_enum_dict(self) ==
    LET named == {field \in DOMAIN self : field \in DOMAIN FIELD_TO_ENUM}
    IN  [index \in {FIELD_TO_ENUM[field] : field \in named} |->
            self[CHOOSE field \in named : FIELD_TO_ENUM[field] = index]]

\* vaem/VaemDriver.py, _construct_frame: the loop
\*   for i in range(0, len(tmp) - 1, 2): frame.append((tmp[i] << 8) + tmp[i + 1])
\* from index i on, frame holding the words appended so far
RECURSIVE FrameAppendLoop(_, _, _)
FrameAppendLoop(tmp, i, frame) ==
    IF i >= Len(tmp) - 1 THEN frame
    ELSE FrameAppendLoop(tmp, i + 2,
                         Append(frame, ShiftLeft(PyIndex(tmp, i), 8) + PyIndex(tmp, i + 1)))

\* vaem/VaemDriver.py, _construct_frame(data), data holding the six keys
construct_frame(data) ==
    IF ~StructFits(data) THEN RaisesWords("struct.error")
    ELSE Returns(FrameAppendLoop(struct_pack(data), 0, <<>>))

\* vaem/VaemDriver.py, _deconstruct_frame: the loop
\*   for i in range(4): data["transferValue"] += frame[len(frame) - 1 - i] << (i * 16)
\* from pass i on; a 16-bit word shifted by 16 * i is digit 4 - i of the sum
RECURSIVE TransferValueLoop(_, _, _)
TransferValueLoop(frame, i, value) ==
    IF i = 4 THEN value
    ELSE TransferValueLoop(frame, i + 1,
            [value EXCEPT ![4 - i] = @ + PyIndex(frame, Len(frame) - 1 - i)])

\* a decoder that takes the last four words in forward order, so that
\* frame[-4] becomes the least significant word of transferValue
deconstruct_frame_forward(frame) ==
    IF Len(frame) < 4 THEN RaisesFrame("IndexError")
    ELSE Returns([access |-> ShiftRight(BitAnd(PyIndex(frame, 0), 65280), 8),
                  dataType |-> BitAnd(PyIndex(frame, 0), 255),
                  paramIndex |-> PyIndex(frame, 1),
                  paramSubIndex |-> ShiftRight(BitAnd(PyIndex(frame, 2), 65280), 8),
                  errorRet |-> BitAnd(PyIndex(frame, 2), 255),
                  transferValue |-> <<PyIndex(frame, Len(frame) - 1),
                                      PyIndex(frame, Len(frame) - 2),
                                      PyIndex(frame, Len(frame) - 3),
                                      PyIndex(frame, Len(frame) - 4)>>])

\* vaem/VaemDriver.py, _deconstruct_frame(frame), frame a list
deconstruct_frame(frame) ==
    IF ~(PyIndexOK(frame, 0) /\ PyIndexOK(frame, 1) /\ PyIndexOK(frame, 2))
    THEN RaisesFrame("IndexError")
    ELSE IF \E i \in 0..3 : ~PyIndexOK(frame, Len(frame) - 1 - i)
    THEN RaisesFrame("IndexError")
    ELSE Returns([access |-> ShiftRight(BitAnd(PyIndex(frame, 0), 65280), 8),
                  dataType |-> BitAnd(PyIndex(frame, 0), 255),
                  paramIndex |-> PyIndex(frame, 1),
                  paramSubIndex |-> ShiftRight(BitAnd(PyIndex(frame, 2), 65280), 8),
                  errorRet |-> BitAnd(PyIndex(frame, 2), 255),
                  transferValue |-> TransferValueLoop(frame, 0, U64(0))])

\* the status words tried: every 16-bit word
StatusWords == 0..65535

\* the values a caller supplies for a field
SuppliedValues == {0, 7}

\* the keyword arguments tried: every subset of the fields, every supplied value
SampleData == UNION {[given -> SuppliedValues] : given \in SUBSET ValveSettingsFields}

HelperOff == hfun = "off" /\ harg = 0 /\ hret = 0 /\ hpc = "start"

InitHelperVars ==
    \/ /\ hfun = "parse_statusword" /\ harg \in StatusWords
       /\ hret = 0 /\ hpc = "start"
    \/ /\ hfun = "ValveSettings" /\ harg \in SampleData
       /\ hret = 0 /\ hpc = "start"
    \/ /\ hfun = "_construct_frame" /\ harg \in SampleFrames
       /\ hret = 0 /\ hpc = "start"
    \/ /\ hfun = "_deconstruct_frame" /\ harg \in SampleWordLists
       /\ hret = 0 /\ hpc = "start"

\* parse_statusword(w)
ParseStatusword ==
    /\ hfun = "parse_statusword" /\ hpc = "start"
    /\ hret' = parse_statusword(harg)
    /\ hpc' = "returned"
    /\ UNCHANGED <<hfun, harg>>
    /\ UNCHANGED <<codecVars, driverVars>>

\* ValveSettings.from_dict(data)
FromDict ==
    /\ hfun = "ValveSettings" /\ hpc = "start"
    /\ hret' = from_dict(harg)
    /\ hpc' = "built"
    /\ UNCHANGED <<hfun, harg>>
    /\ UNCHANGED <<codecVars, driverVars>>

\* vaem/VaemDriver.py: _construct_frame(data)
ConstructFrame ==
    /\ hfun = "_construct_frame" /\ hpc = "start"
    /\ hret' = construct_frame(harg)
    /\ hpc' = "returned"
    /\ UNCHANGED <<hfun, harg>>
    /\ UNCHANGED <<codecVars, driverVars>>

\* vaem/VaemDriver.py: _deconstruct_frame(frame)
DeconstructFrame ==
    /\ hfun = "_deconstruct_frame" /\ hpc = "start"
    /\ hret' = deconstruct_frame(harg)
    /\ hpc' = "returned"
    /\ UNCHANGED <<hfun, harg>>
    /\ UNCHANGED <<codecVars, driverVars>>

\* settings.to_enum_dict()
ToEnumDict ==
    /\ hfun = "ValveSettings" /\ hpc = "built"
    /\ hret' = to_enum_dict(hret)
    /\ hpc' = "returned"
    /\ UNCHANGED <<hfun, harg>>
    /\ UNCHANGED <<codecVars, driverVars>>

-----------------------------------------------------------------------------
(* The device and the transport, as the driver sees them *)

Callers == {"a", "b"}

\* the valve ids callers pass: two valid ones and one beyond each end of 1..8
ValveIds == {0, 3, 7, 9}

\* error codes the device answers with: none, a listed one, an unlisted one
DeviceErrors == {0, 34, 200}

InitMasks == {0, 129}

Ops == {"select_valve", "deselect_valve", "start_valves", "close_valve",
        "reset_control_word", "save_settings", "clear_error"}

TwoStepOps == {"select_valve", "deselect_valve"}

\* status words the device reports: not ready, ready, and 0x0119 (valve 1
\* active, ready, error flag set)
DeviceStatusWords == {0, 16, 281}

\* the status words the device may put into its answer to req
StatusAnswers(req) ==
    IF req.paramIndex = StatusWord /\ req.access = Read THEN DeviceStatusWords ELSE {0}

\* the frame the device answers a request with: the request's header, the
\* error code, and the selection mask for a read of SelectValve, its status
\* word for a read of StatusWord
DeviceFrame(req, e, word) ==
    VaemRegisters(req.access, req.dataType, req.paramIndex, req.paramSubIndex, e,
                  IF req.paramIndex = SelectValve /\ req.access = Read THEN U64(mask)
                  ELSE IF req.paramIndex = StatusWord /\ req.access = Read THEN U64(word)
                  ELSE req.transferValue)

\* what one readwrite_registers call can come to: the answer with some error
\* code, or an exception of the client (the write may or may not have
\* reached the device)
DeviceAnswers(req) ==
    {[fail |-> FALSE, err |-> e, applied |-> (e = 0 /\ req.access = Write),
      registers |-> to_list(DeviceFrame(req, e, word)).val] :
        e \in {x \in DeviceErrors : x = 0 \/ budget > 0}, word \in StatusAnswers(req)}
    \cup
    {[fail |-> TRUE, err |-> -1, applied |-> ap, registers |-> <<>>] :
        ap \in {x \in BOOLEAN : budget > 0 /\ (x => req.access = Write)}}

MaskAfter(req, answer) ==
    IF answer.applied /\ req.paramIndex = SelectValve /\ req.access = Write
    THEN req.transferValue[4] % 256
    ELSE mask

BudgetAfter(answer) == IF answer.fail \/ answer.err # 0 THEN budget - 1 ELSE budget

-----------------------------------------------------------------------------
(* VaemDriver.py: the transaction *)

\* _read_write_registers: the registers read, or [] when the client raised
read_write_registers(answer) == IF answer.fail THEN <<>> ELSE answer.registers

\* _transfer_vaem_registers handing back the frame it sent when nothing was read
transfer_vaem_registers_echo(vaem_reg, answer) ==
    LET writeData == to_list(vaem_reg)
    IN  IF writeData.exc # "none" THEN RaisesFrame(writeData.exc)
        ELSE IF answer.fail THEN Returns(vaem_reg)
        ELSE from_list(read_write_registers(answer))

\* _transfer_vaem_registers
transfer_vaem_registers(vaem_reg, answer) ==
    LET writeData == to_list(vaem_reg)
    IN  IF writeData.exc # "none" THEN RaisesFrame(writeData.exc)
        ELSE from_list(read_write_registers(answer))

\* get_transfer_value(VaemIndex.SelectValve, valve_code, operation)
get_transfer_value(valve_code, operation) ==
    create_select_valve_registers(operation, valve_code)

\* the mask select_valve / deselect_valve write, from the mask they read
SelectValue(valve_id, read_value) ==
    Or64(U64(vaemValveIndex(valve_id)), read_value)

\* mutant: the complement forgotten (read & bit)
DeselectValue_nocomplement(valve_id, read_value) ==
    And64(read_value, U64(vaemValveIndex(valve_id)))

DeselectValue(valve_id, read_value) ==
    AndNot64(read_value, U64(vaemValveIndex(valve_id)))

Reverse(seq) == [i \in 1..Len(seq) |-> seq[Len(seq) + 1 - i]]

\* int(binary_string, 2) of a string of "0" and "1", most significant first
RECURSIVE int_base2(_)
int_base2(digits) ==
    IF Len(digits) = 0 THEN 0
    ELSE 2 * int_base2(SubSeq(digits, 1, Len(digits) - 1)) + digits[Len(digits)]

ReturnsInt(v) == [exc |-> "none", val |-> v]
RaisesInt(e) == [exc |-> e, val |-> -1]

\* mutant: the list parsed as given, valve 1 most significant
decimal_code_unreversed(states) ==
    IF \E i \in 1..Len(states) : states[i] \notin {0, 1}
    THEN RaisesInt("ValueError")
    ELSE ReturnsInt(int_base2(states))

\* select_valves: reversed_states, binary_string, decimal_code.  str(state)
\* of a state in 0..9 is one character, and int(.., 2) raises ValueError on
\* any character but "0" and "1"
decimal_code(states) ==
    LET reversed_states == Reverse(states)
        binary_string == reversed_states
    IN  IF \E i \in 1..Len(binary_string) : binary_string[i] \notin {0, 1}
        THEN RaisesInt("ValueError")
        ELSE ReturnsInt(int_base2(binary_string))

\* the 16 binary digits of a 16-bit word, most significant first
Bits16(d) == [i \in 1..16 |-> (d \div Pow2(16 - i)) % 2]

RECURSIVE StripTo8(_)
StripTo8(digits) ==
    IF Len(digits) > 8 /\ Head(digits) = 0 THEN StripTo8(Tail(digits)) ELSE digits

\* format(value, "08b"): the binary digits of the value, most significant
\* first, padded with zeros to 8 digits
format_08b(tv) ==
    StripTo8(Bits16(tv[1]) \o Bits16(tv[2]) \o Bits16(tv[3]) \o Bits16(tv[4]))

\* mutant: the digits kept in the order of the string, valve 8 first
states_of_value_unreversed(tv) == format_08b(tv)

\* read_valves_state: states = [int(bit) for bit in binary_string]; states.reverse()
states_of_value(tv) == Reverse(format_08b(tv))

\* the one frame of an operation of a single transaction
FrameOf(o) ==
    CASE o = "start_valves" -> create_controlword_registers(Write, StartValves)
      [] o = "close_valve" -> create_controlword_registers(Write, StopValves)
      [] o = "reset_control_word" -> create_controlword_registers(Write, 0)
      [] o = "clear_error" -> create_controlword_registers(Write, ResetErrors)
      [] o = "save_settings" ->
            VaemRegisters(Write, UINT32, SaveParameters, 0, 0, U64(SaveTrigger))

ClearErrorFrame == create_controlword_registers(Write, ResetErrors)

\* _read_status_word
StatusWordFrame == VaemRegisters(Read, UINT16, StatusWord, 0, 0, U64(0))

\* _vaem_init: "set operating mode" (the dict handed to VaemRegisters.from_dict)
OperatingModeFrame == VaemRegisters(Write, UINT8, OperatingMode, 0, 0, U64(OpMode1))

\* the frame of the operation caller c runs, from its arguments
FrameFor(c) ==
    CASE op[c] = "select_valves" ->
            get_transfer_value(U64(decimal_code(held[c]).val), Write)
      [] op[c] \in {"get_status", "wait_for_readiness"} -> StatusWordFrame
      [] op[c] = "read_valve_configuration" ->
            create_setting_registers(settings[c][1].param, arg[c] - 1, Read, Wide(0))
      [] op[c] \in {"configure_valve_response_time", "configure_valve_inrush_current"} ->
            create_setting_registers(settings[c][1].param, arg[c] - 1, Write,
                                     settings[c][1].value)
      [] OTHER -> FrameOf(op[c])

LogEntry(req, answer) == [req |-> req, err |-> answer.err]

NoOutcome == [kind |-> "none", exc |-> "none", val |-> NullFrame]
Returned(v) == [kind |-> "returned", exc |-> "none", val |-> v]
ReturnedNone == [kind |-> "returned_none", exc |-> "none", val |-> NullFrame]
\* read_valves_state returned its list (held by the caller from then on)
ReturnedList == [kind |-> "returned_list", exc |-> "none", val |-> NullFrame]
ReturnedFalse == [kind |-> "returned_false", exc |-> "none", val |-> NullFrame]
Raised(e) == [kind |-> "raised", exc |-> e, val |-> NullFrame]

BitsOf(m) == {b \in 0..7 : (m \div Pow2(b)) % 2 = 1}

\* the exchanges of a construction in which both writes were answered without error
InitLogOK == <<[req |-> OperatingModeFrame, err |-> 0], [req |-> ClearErrorFrame, err |-> 0]>>

\* __init__ has ended: callers hold the object
Constructed == ctor \in {"done", "raised"}

Init ==
    /\ CodecOff /\ HelperOff
    /\ init_done = TRUE
    /\ mask \in InitMasks
    /\ pc = [c \in Callers |-> "idle"]
    /\ op = [c \in Callers |-> "none"]
    /\ arg = [c \in Callers |-> 0]
    /\ resp = [c \in Callers |-> NullFrame]
    /\ result = [c \in Callers |-> NullFrame]
    /\ cur = [c \in Callers |-> 0]
    /\ depth = [c \in Callers |-> 0]
    /\ outcome = [c \in Callers |-> NoOutcome]
    /\ xlog = [c \in Callers |-> <<>>]
    /\ expectBits = BitsOf(mask)
    /\ scen = IF mask = 0 THEN 0 ELSE -1
    /\ budget = MaxFaults
    /\ ctor = "done"
    /\ attempts = 1
    /\ initlog = InitLogOK
    /\ held = [c \in Callers |-> <<>>]
    /\ settings = [c \in Callers |-> <<>>]

\* How a call ends: pc "done" with its outcome
Finish(c, out) ==
    /\ pc' = [pc EXCEPT ![c] = "done"]
    /\ outcome' = [outcome EXCEPT ![c] = out]

\* A caller invokes a public operation: the wrapper of handle_error_response
\* checks _init_done and enters the function, up to its first transaction
Call(c, o, v) ==
    /\ pc[c] = "idle"
    /\ Constructed
    /\ op' = [op EXCEPT ![c] = o]
    /\ arg' = [arg EXCEPT ![c] = IF o \in TwoStepOps THEN v ELSE 0]
    /\ IF ~init_done
       THEN Finish(c, ReturnedNone)
       ELSE IF o \in TwoStepOps
            THEN IF v \in 1..8
                 THEN /\ pc' = [pc EXCEPT ![c] = "read"]
                      /\ UNCHANGED outcome
                 ELSE Finish(c, Raised("ValueError"))
            ELSE /\ pc' = [pc EXCEPT ![c] = "xfer"]
                 /\ UNCHANGED outcome
    /\ UNCHANGED <<init_done, mask, resp, result, cur, depth, xlog, expectBits, scen, budget>>
    /\ UNCHANGED <<codecVars, helperVars>>
    /\ UNCHANGED sessionVars

\* mutant: a lock held from the read of select/deselect to its write
ExchangeAllowed_locked(c) == \A d \in Callers \ {c} : pc[d] # "write"

\* _read_write_registers calls client.readwrite_registers directly: no lock is
\* taken, so a caller may exchange whatever the other callers are doing
ExchangeAllowed(c) == TRUE

\* select_valve / deselect_valve: "get currently selected valves"
SelectionRead(c) ==
    /\ pc[c] = "read"
    /\ ExchangeAllowed(c)
    /\ LET data == get_transfer_value(U64(vaemValveIndex(arg[c])), Read)
       IN  \E answer \in DeviceAnswers(data) :
             LET r == transfer_vaem_registers(data, answer)
             IN  /\ xlog' = [xlog EXCEPT ![c] = Append(@, LogEntry(data, answer))]
                 /\ mask' = MaskAfter(data, answer)
                 /\ budget' = BudgetAfter(answer)
                 /\ IF r.exc # "none"
                    THEN /\ Finish(c, Raised(r.exc))
                         /\ UNCHANGED resp
                    ELSE /\ resp' = [resp EXCEPT ![c] = r.val]
                         /\ pc' = [pc EXCEPT ![c] = "write"]
                         /\ UNCHANGED outcome
    /\ UNCHANGED <<init_done, op, arg, result, cur, depth, expectBits, scen>>
    /\ UNCHANGED <<codecVars, helperVars>>
    /\ UNCHANGED sessionVars

\* select_valve / deselect_valve: "select new valve" / "deselect new valve"
SelectionWrite(c) ==
    /\ pc[c] = "write"
    /\ ExchangeAllowed(c)
    /\ LET value == IF op[c] = "select_valve"
                    THEN SelectValue(arg[c], resp[c].transferValue)
                    ELSE DeselectValue(arg[c], resp[c].transferValue)
           data == get_transfer_value(value, Write)
       IN  \E answer \in DeviceAnswers(data) :
             LET r == transfer_vaem_registers(data, answer)
             IN  /\ xlog' = [xlog EXCEPT ![c] = Append(@, LogEntry(data, answer))]
                 /\ mask' = MaskAfter(data, answer)
                 /\ budget' = BudgetAfter(answer)
                 /\ IF r.exc # "none"
                    THEN /\ Finish(c, Raised(r.exc))
                         /\ UNCHANGED <<result, cur>>
                    ELSE /\ result' = [result EXCEPT ![c] = r.val]
                         /\ cur' = [cur EXCEPT ![c] = r.val.errorRet]
                         /\ pc' = [pc EXCEPT ![c] = "wrap"]
                         /\ UNCHANGED outcome
    /\ UNCHANGED <<init_done, op, arg, resp, depth, expectBits, scen>>
    /\ UNCHANGED <<codecVars, helperVars>>
    /\ UNCHANGED sessionVars

\* start_valves, close_valve, reset_control_word, save_settings, clear_error:
\* one frame, one transaction
Transfer(c) ==
    /\ pc[c] = "xfer"
    /\ ExchangeAllowed(c)
    /\ LET data == FrameFor(c)
       IN  IF to_list(data).exc # "none"
           THEN \* vaem_reg.to_list() raised: nothing is exchanged
                /\ Finish(c, Raised(to_list(data).exc))
                /\ UNCHANGED <<xlog, mask, budget, result, cur>>
           ELSE \E answer \in DeviceAnswers(data) :
             LET r == transfer_vaem_registers(data, answer)
             IN  /\ xlog' = [xlog EXCEPT ![c] = Append(@, LogEntry(data, answer))]
                 /\ mask' = MaskAfter(data, answer)
                 /\ budget' = BudgetAfter(answer)
                 /\ IF r.exc # "none"
                    THEN /\ Finish(c, Raised(r.exc))
                         /\ UNCHANGED <<result, cur>>
                    ELSE /\ result' = [result EXCEPT ![c] = r.val]
                         /\ cur' = [cur EXCEPT ![c] = r.val.errorRet]
                         /\ pc' = [pc EXCEPT ![c] = "wrap"]
                         /\ UNCHANGED outcome
    /\ UNCHANGED <<init_done, op, arg, resp, depth, expectBits, scen>>
    /\ UNCHANGED <<codecVars, helperVars>>
    /\ UNCHANGED sessionVars

\* what the wrapper does with a result whose errorRet is `error`:
\*   "return"  error == 0: return result
\*   "KeyError"  error_codes[error] has no such key
\*   "RecursionError"  self.clear_error() exceeds the recursion limit; the
\*       caller sees RecursionError, or ValueError when the limit is hit inside
\*       the try block of _read_write_registers, whose except clause turns it
\*       into an empty answer
\*   "clear"  log the message and call self.clear_error()
WrapperStep(error, d) ==
    IF error = 0 THEN "return"
    ELSE IF error \notin error_codes THEN "KeyError"
    ELSE IF d >= MaxRecursion THEN "RecursionError"
    ELSE "clear"

\* What the caller of the public operation gets once the wrapper has returned
\* the result: __init__ ignores what clear_error returned; get_status hands
\* result.to_list(), a list of words, to parse_statusword, whose first
\* statement (statusWord & 0x01) raises TypeError on a list
OperationResult(c) ==
    CASE op[c] = "__init__" -> ReturnedNone
      [] op[c] \in {"get_status", "wait_for_readiness"} -> Raised("TypeError")
      [] OTHER -> Returned(result[c])

\* handle_error_response.wrapper, after func returned a result.  The wrappers
\* of nested clear_error calls return up to the outermost one, which returns
\* the result of the operation itself.
HandleErrorResponse(c) ==
    /\ pc[c] = "wrap"
    /\ LET step == WrapperStep(cur[c], depth[c])
       IN  IF step = "return"
           THEN /\ Finish(c, OperationResult(c))
                /\ UNCHANGED depth
           ELSE IF step = "clear"
           THEN /\ depth' = [depth EXCEPT ![c] = @ + 1]
                /\ pc' = [pc EXCEPT ![c] = "clear"]
                /\ UNCHANGED outcome
           ELSE IF step = "KeyError"
           THEN /\ Finish(c, Raised("KeyError"))
                /\ UNCHANGED depth
           ELSE /\ \E e \in {"RecursionError", "ValueError"} : Finish(c, Raised(e))
                /\ UNCHANGED depth
    /\ UNCHANGED <<init_done, mask, op, arg, resp, result, cur, xlog, expectBits, scen, budget>>
    /\ UNCHANGED <<codecVars, helperVars>>
    /\ UNCHANGED sessionVars

\* clear_error, called by the wrapper: itself wrapped by handle_error_response
ClearError(c) ==
    /\ pc[c] = "clear"
    /\ ExchangeAllowed(c)
    /\ LET data == ClearErrorFrame
       IN  \E answer \in DeviceAnswers(data) :
             LET r == transfer_vaem_registers(data, answer)
             IN  /\ xlog' = [xlog EXCEPT ![c] = Append(@, LogEntry(data, answer))]
                 /\ mask' = MaskAfter(data, answer)
                 /\ budget' = BudgetAfter(answer)
                 /\ IF r.exc # "none"
                    THEN /\ Finish(c, Raised(r.exc))
                         /\ UNCHANGED cur
                    ELSE /\ cur' = [cur EXCEPT ![c] = r.val.errorRet]
                         /\ pc' = [pc EXCEPT ![c] = "wrap"]
                         /\ UNCHANGED outcome
    /\ UNCHANGED <<init_done, op, arg, resp, result, depth, expectBits, scen>>
    /\ UNCHANGED <<codecVars, helperVars>>
    /\ UNCHANGED sessionVars

-----------------------------------------------------------------------------
(* VaemDriver.py: construction *)

\* "if _ == 1" with the error raised after the first refusal already
GivesUp_first(i) == i = 0

\* "if _ == 1": the pass of the connect loop after whose refusal __init__ raises
GivesUp(i) == i = 1

\* vaemDriver(config): __init__ starts, with _init_done = False
CallInit(c) ==
    /\ pc[c] = "idle"
    /\ ctor = "none"
    /\ ctor' = "running"
    /\ init_done' = FALSE
    /\ op' = [op EXCEPT ![c] = "__init__"]
    /\ pc' = [pc EXCEPT ![c] = "connect"]
    /\ UNCHANGED <<mask, arg, resp, result, cur, depth, outcome, xlog, expectBits, scen, budget>>
    /\ UNCHANGED <<attempts, initlog, held, settings>>
    /\ UNCHANGED <<codecVars, helperVars>>

\* one pass of "for _ in range(2)": client.connect() answers ok or not; on
\* the second refusal ConnectionError is raised; on success the loop is left,
\* _init_done is set and _vaem_init is entered
Connect(c, ok) ==
    /\ pc[c] = "connect"
    /\ attempts < ConnectAttempts
    /\ attempts' = attempts + 1
    /\ IF ok
       THEN /\ init_done' = TRUE
            /\ pc' = [pc EXCEPT ![c] = "vaem_init"]
            /\ UNCHANGED outcome
       ELSE IF GivesUp(attempts)
       THEN /\ Finish(c, Raised("ConnectionError"))
            /\ UNCHANGED init_done
       ELSE UNCHANGED <<init_done, pc, outcome>>
    /\ UNCHANGED <<mask, op, arg, resp, result, cur, depth, xlog, expectBits, scen, budget>>
    /\ UNCHANGED <<ctor, initlog, held, settings>>
    /\ UNCHANGED <<codecVars, helperVars>>

\* _vaem_init: the operating-mode write, whose response is dropped, then
\* self.clear_error()
VaemInit(c) ==
    /\ pc[c] = "vaem_init"
    /\ IF ~init_done
       THEN /\ Finish(c, ReturnedNone)
            /\ UNCHANGED <<xlog, mask, budget>>
       ELSE LET data == OperatingModeFrame
            IN  \E answer \in DeviceAnswers(data) :
                  LET r == transfer_vaem_registers(data, answer)
                  IN  /\ xlog' = [xlog EXCEPT ![c] = Append(@, LogEntry(data, answer))]
                      /\ mask' = MaskAfter(data, answer)
                      /\ budget' = BudgetAfter(answer)
                      /\ IF r.exc # "none"
                         THEN Finish(c, Raised(r.exc))
                         ELSE /\ pc' = [pc EXCEPT ![c] = "clear"]
                              /\ UNCHANGED outcome
    /\ UNCHANGED <<init_done, op, arg, resp, result, cur, depth, expectBits, scen>>
    /\ UNCHANGED sessionVars
    /\ UNCHANGED <<codecVars, helperVars>>

-----------------------------------------------------------------------------
(* VaemDriver.py: the operations that take lists and settings *)

Entry(name, value) == [param |-> name, value |-> value]

\* select_valves(states), wrapped by handle_error_response
CallSelectValves(c, states) ==
    /\ pc[c] = "idle"
    /\ Constructed
    /\ op' = [op EXCEPT ![c] = "select_valves"]
    /\ held' = [held EXCEPT ![c] = states]
    /\ IF ~init_done
       THEN Finish(c, ReturnedNone)
       ELSE IF Len(states) # 8
       THEN \* "Must provide 8 valve states" is logged; return
            Finish(c, ReturnedNone)
       ELSE IF decimal_code(states).exc # "none"
       THEN Finish(c, Raised(decimal_code(states).exc))
       ELSE /\ pc' = [pc EXCEPT ![c] = "xfer"]
            /\ UNCHANGED outcome
    /\ UNCHANGED <<init_done, mask, arg, resp, result, cur, depth, xlog, expectBits, scen, budget>>
    /\ UNCHANGED <<ctor, attempts, initlog, settings>>
    /\ UNCHANGED <<codecVars, helperVars>>

\* read_valves_state(): not wrapped; it checks _init_done itself
CallReadValvesState(c) ==
    /\ pc[c] = "idle"
    /\ Constructed
    /\ op' = [op EXCEPT ![c] = "read_valves_state"]
    /\ IF ~init_done
       THEN Finish(c, ReturnedNone)
       ELSE /\ pc' = [pc EXCEPT ![c] = "read_state"]
            /\ UNCHANGED outcome
    /\ UNCHANGED <<init_done, mask, arg, resp, result, cur, depth, xlog, expectBits, scen, budget>>
    /\ UNCHANGED sessionVars
    /\ UNCHANGED <<codecVars, helperVars>>

\* read_valves_state: the read of SelectValve and the conversion of the
\* value read; the errorRet of the response is not looked at
ReadValvesState(c) ==
    /\ pc[c] = "read_state"
    /\ ExchangeAllowed(c)
    /\ LET data == get_transfer_value(U64(0), Read)
       IN  \E answer \in DeviceAnswers(data) :
             LET r == transfer_vaem_registers(data, answer)
             IN  /\ xlog' = [xlog EXCEPT ![c] = Append(@, LogEntry(data, answer))]
                 /\ mask' = MaskAfter(data, answer)
                 /\ budget' = BudgetAfter(answer)
                 /\ IF r.exc # "none"
                    THEN /\ Finish(c, Raised(r.exc))
                         /\ UNCHANGED <<resp, held>>
                    ELSE /\ resp' = [resp EXCEPT ![c] = r.val]
                         /\ held' = [held EXCEPT ![c] = states_of_value(r.val.transferValue)]
                         /\ Finish(c, ReturnedList)
    /\ UNCHANGED <<init_done, op, arg, result, cur, depth, expectBits, scen>>
    /\ UNCHANGED <<ctor, attempts, initlog, settings>>
    /\ UNCHANGED <<codecVars, helperVars>>

\* configure_valves(valve_id, settings): not wrapped, and _init_done is not
\* looked at; the entries are handled one by one
CallConfigureValves(c, valve_id, entries) ==
    /\ pc[c] = "idle"
    /\ Constructed
    /\ op' = [op EXCEPT ![c] = "configure_valves"]
    /\ arg' = [arg EXCEPT ![c] = valve_id]
    /\ settings' = [settings EXCEPT ![c] = entries]
    /\ pc' = [pc EXCEPT ![c] = "configure"]
    /\ UNCHANGED <<init_done, mask, resp, result, cur, depth, outcome, xlog, expectBits, scen, budget>>
    /\ UNCHANGED <<ctor, attempts, initlog, held>>
    /\ UNCHANGED <<codecVars, helperVars>>

\* the entries of the mapping are handled in order, one exchange each, so the
\* entry the loop stands at is the one after the exchanges made so far
NextEntry(c) == Len(xlog[c]) + 1

\* one pass of "for param, value in settings.items()": the entry is checked
\* and, when it passes, written; the response is dropped
ConfigureValves(c) ==
    /\ pc[c] = "configure"
    /\ ExchangeAllowed(c)
    /\ IF NextEntry(c) > Len(settings[c])
       THEN /\ Finish(c, ReturnedNone)
            /\ UNCHANGED <<xlog, mask, budget>>
       ELSE LET param == settings[c][NextEntry(c)].param
                value == settings[c][NextEntry(c)].value
            IN  IF ~hasattr_VaemRanges(param)
                THEN \* "VaemIndex ... is not a setting"
                     /\ Finish(c, Raised("ValueError"))
                     /\ UNCHANGED <<xlog, mask, budget>>
                ELSE IF ~(InRange(value, VaemRanges[param]) /\ arg[c] \in 1..8)
                THEN \* "... must be in range ... and valve_id -> 1-8"
                     /\ Finish(c, Raised("ValueError"))
                     /\ UNCHANGED <<xlog, mask, budget>>
                ELSE LET data == create_setting_registers(param, arg[c] - 1, Write, value)
                     IN  \E answer \in DeviceAnswers(data) :
                           LET r == transfer_vaem_registers(data, answer)
                           IN  /\ xlog' = [xlog EXCEPT ![c] = Append(@, LogEntry(data, answer))]
                               /\ mask' = MaskAfter(data, answer)
                               /\ budget' = BudgetAfter(answer)
                               /\ IF r.exc # "none"
                                  THEN Finish(c, Raised(r.exc))
                                  ELSE UNCHANGED <<pc, outcome>>
    /\ UNCHANGED <<init_done, op, arg, resp, result, cur, depth, expectBits, scen>>
    /\ UNCHANGED sessionVars
    /\ UNCHANGED <<codecVars, helperVars>>

\* read_valve_configuration(valve_id, setting), wrapped; valve_id is not checked
CallReadValveConfiguration(c, valve_id, setting) ==
    /\ pc[c] = "idle"
    /\ Constructed
    /\ op' = [op EXCEPT ![c] = "read_valve_configuration"]
    /\ arg' = [arg EXCEPT ![c] = valve_id]
    /\ settings' = [settings EXCEPT ![c] = <<Entry(setting, Wide(0))>>]
    /\ IF ~init_done
       THEN Finish(c, ReturnedNone)
       ELSE IF ~hasattr_VaemRanges(setting)
       THEN Finish(c, Raised("ValueError"))
       ELSE /\ pc' = [pc EXCEPT ![c] = "xfer"]
            /\ UNCHANGED outcome
    /\ UNCHANGED <<init_done, mask, resp, result, cur, depth, xlog, expectBits, scen, budget>>
    /\ UNCHANGED <<ctor, attempts, initlog, held>>
    /\ UNCHANGED <<codecVars, helperVars>>

\* the parameter and the range of the values the dedicated setters accept:
\* "opening_time in range(0, 2**32)", "inrush_current in range(20, 1000)"
SetterParam(o) ==
    IF o = "configure_valve_response_time" THEN "ResponseTime" ELSE "InrushCurrent"
SetterRange(o) ==
    IF o = "configure_valve_response_time" THEN <<Wide(0), Two32>>
    ELSE <<Wide(20), Wide(1000)>>

Setters == {"configure_valve_response_time", "configure_valve_inrush_current"}

\* configure_valve_response_time(valve_id, opening_time) and
\* configure_valve_inrush_current(valve_id, inrush_current), both wrapped
CallSetter(c, o, valve_id, value) ==
    /\ pc[c] = "idle"
    /\ Constructed
    /\ op' = [op EXCEPT ![c] = o]
    /\ arg' = [arg EXCEPT ![c] = valve_id]
    /\ settings' = [settings EXCEPT ![c] = <<Entry(SetterParam(o), value)>>]
    /\ IF ~init_done
       THEN Finish(c, ReturnedNone)
       ELSE IF InRange(value, SetterRange(o)) /\ valve_id \in 1..8
       THEN /\ pc' = [pc EXCEPT ![c] = "xfer"]
            /\ UNCHANGED outcome
       ELSE Finish(c, Raised("ValueError"))
    /\ UNCHANGED <<init_done, mask, resp, result, cur, depth, xlog, expectBits, scen, budget>>
    /\ UNCHANGED <<ctor, attempts, initlog, held>>
    /\ UNCHANGED <<codecVars, helperVars>>

\* get_status(): not wrapped; it calls the wrapped _read_status_word, whose
\* wrapper returns None on a session that is not initialized, and None has
\* no to_list
CallGetStatus(c) ==
    /\ pc[c] = "idle"
    /\ Constructed
    /\ op' = [op EXCEPT ![c] = "get_status"]
    /\ IF ~init_done
       THEN Finish(c, Raised("AttributeError"))
       ELSE /\ pc' = [pc EXCEPT ![c] = "xfer"]
            /\ UNCHANGED outcome
    /\ UNCHANGED <<init_done, mask, arg, resp, result, cur, depth, xlog, expectBits, scen, budget>>
    /\ UNCHANGED sessionVars
    /\ UNCHANGED <<codecVars, helperVars>>

\* wait_for_readiness(timeout): not wrapped.  The first pass of its loop
\* returns False when the clock has already run past the timeout, and calls
\* get_status otherwise; get_status raises in every case, so no second pass
\* is ever made.  arg[c] records whether the clock was past the timeout (1) or
\* not (0) when the pass looked at it
CallWaitForReadiness(c, expired) ==
    /\ pc[c] = "idle"
    /\ Constructed
    /\ op' = [op EXCEPT ![c] = "wait_for_readiness"]
    /\ arg' = [arg EXCEPT ![c] = IF expired THEN 1 ELSE 0]
    /\ IF expired
       THEN Finish(c, ReturnedFalse)
       ELSE IF ~init_done
       THEN Finish(c, Raised("AttributeError"))
       ELSE /\ pc' = [pc EXCEPT ![c] = "xfer"]
            /\ UNCHANGED outcome
    /\ UNCHANGED <<init_done, mask, resp, result, cur, depth, xlog, expectBits, scen, budget>>
    /\ UNCHANGED sessionVars
    /\ UNCHANGED <<codecVars, helperVars>>

\* open_valve(): not wrapped; its first statement is self.open_valve(), so
\* the call ends at the recursion limit with nothing sent
CallOpenValve(c) ==
    /\ pc[c] = "idle"
    /\ Constructed
    /\ op' = [op EXCEPT ![c] = "open_valve"]
    /\ Finish(c, Raised("RecursionError"))
    /\ UNCHANGED <<init_done, mask, arg, resp, result, cur, depth, xlog, expectBits, scen, budget>>
    /\ UNCHANGED sessionVars
    /\ UNCHANGED <<codecVars, helperVars>>

\* ghost: the selection the calls made so far amount to
ExpectAfter(o, v, out, bits) ==
    IF out.kind # "returned" THEN bits
    ELSE IF o = "select_valve" THEN bits \cup {v - 1}
    ELSE IF o = "deselect_valve" THEN bits \ {v - 1}
    ELSE bits

\* ghost: the scenario "from mask 0: select_valve(3), select_valve(7),
\* deselect_valve(3)", with no other selection call in between; -1 once left
ScenAfter(o, v, out, n) ==
    IF out.kind # "returned" \/ o \notin TwoStepOps THEN n
    ELSE IF n = 0 /\ o = "select_valve" /\ v = 3 THEN 1
    ELSE IF n = 1 /\ o = "select_valve" /\ v = 7 THEN 2
    ELSE IF n = 2 /\ o = "deselect_valve" /\ v = 3 THEN 3
    ELSE -1

\* The caller takes the outcome; its locals are dropped
Return(c) ==
    /\ pc[c] = "done"
    /\ pc' = [pc EXCEPT ![c] = "idle"]
    /\ expectBits' = IF op[c] = "select_valves" /\ outcome[c].kind = "returned"
                      THEN {i - 1 : i \in {k \in 1..Len(held[c]) : held[c][k] = 1}}
                      ELSE ExpectAfter(op[c], arg[c], outcome[c], expectBits)
    /\ scen' = IF op[c] = "select_valves" /\ outcome[c].kind = "returned"
               THEN -1
               ELSE ScenAfter(op[c], arg[c], outcome[c], scen)
    /\ op' = [op EXCEPT ![c] = "none"]
    /\ arg' = [arg EXCEPT ![c] = 0]
    /\ resp' = [resp EXCEPT ![c] = NullFrame]
    /\ result' = [result EXCEPT ![c] = NullFrame]
    /\ cur' = [cur EXCEPT ![c] = 0]
    /\ depth' = [depth EXCEPT ![c] = 0]
    /\ outcome' = [outcome EXCEPT ![c] = NoOutcome]
    /\ xlog' = [xlog EXCEPT ![c] = <<>>]
    /\ settings' = [settings EXCEPT ![c] = <<>>]
    /\ ctor' = IF op[c] # "__init__" THEN ctor
               ELSE IF outcome[c].kind = "raised" THEN "raised" ELSE "done"
    /\ initlog' = IF op[c] = "__init__" THEN xlog[c] ELSE initlog
    /\ UNCHANGED <<init_done, mask, budget, attempts, held>>
    /\ UNCHANGED <<codecVars, helperVars>>

\* no other caller is inside a call
Alone(c) == \A d \in Callers \ {c} : pc[d] = "idle"

\* Callers serialize their calls themselves (one call at a time); the device
\* and the transport may fail MaxFaults times
Next ==
    \/ \E c \in Callers, o \in Ops, v \in ValveIds : Alone(c) /\ Call(c, o, v)
    \/ \E c \in Callers : Alone(c) /\ SelectionRead(c)
    \/ \E c \in Callers : Alone(c) /\ SelectionWrite(c)
    \/ \E c \in Callers : Alone(c) /\ Transfer(c)
    \/ \E c \in Callers : Alone(c) /\ HandleErrorResponse(c)
    \/ \E c \in Callers : Alone(c) /\ ClearError(c)
    \/ \E c \in Callers : Alone(c) /\ Return(c)

Spec == Init /\ [][Next]_vars

\* Callers run select_valve / deselect_valve concurrently, interleaving at the
\* register exchanges: nothing in the driver serializes them.  The device and
\* the transport are reliable here, and no valve is selected at the start.
InitRace ==
    /\ CodecOff /\ HelperOff
    /\ init_done = TRUE
    /\ mask = 0
    /\ pc = [c \in Callers |-> "idle"]
    /\ op = [c \in Callers |-> "none"]
    /\ arg = [c \in Callers |-> 0]
    /\ resp = [c \in Callers |-> NullFrame]
    /\ result = [c \in Callers |-> NullFrame]
    /\ cur = [c \in Callers |-> 0]
    /\ depth = [c \in Callers |-> 0]
    /\ outcome = [c \in Callers |-> NoOutcome]
    /\ xlog = [c \in Callers |-> <<>>]
    /\ expectBits = BitsOf(mask)
    /\ scen = IF mask = 0 THEN 0 ELSE -1
    /\ budget = 0
    /\ ctor = "done"
    /\ attempts = 1
    /\ initlog = InitLogOK
    /\ held = [c \in Callers |-> <<>>]
    /\ settings = [c \in Callers |-> <<>>]

NextRace ==
    \/ \E c \in Callers, o \in TwoStepOps, v \in ValveIds : Call(c, o, v)
    \/ \E c \in Callers : SelectionRead(c)
    \/ \E c \in Callers : SelectionWrite(c)
    \/ \E c \in Callers : HandleErrorResponse(c)
    \/ \E c \in Callers : Return(c)

SpecRace == InitRace /\ [][NextRace]_vars

\* One call at a time of select_valve / deselect_valve with every valve id
\* from 0 to 9, on a reliable device with no valve selected at the start
AllValveIds == 0..9

NextSelect ==
    \/ \E c \in Callers, o \in TwoStepOps, v \in AllValveIds : Alone(c) /\ Call(c, o, v)
    \/ \E c \in Callers : Alone(c) /\ SelectionRead(c)
    \/ \E c \in Callers : Alone(c) /\ SelectionWrite(c)
    \/ \E c \in Callers : Alone(c) /\ HandleErrorResponse(c)
    \/ \E c \in Callers : Alone(c) /\ Return(c)

SpecSelect == InitRace /\ [][NextSelect]_vars

\* The lists of valve states callers pass to select_valves: every list of 8
\* flags, lists of 0, 1, 7 and 9 flags, and a list of 8 with a state that is
\* no flag
FlagLists == [1..8 -> {0, 1}]

MalformedLists ==
    {<<>>, <<1>>, <<1, 1, 1, 0, 0, 0, 0>>, <<1, 0, 0, 0, 0, 0, 0, 0, 1>>}

NonFlagLists == {<<2, 0, 0, 0, 0, 0, 0, 0>>}

\* select_valves and read_valves_state on a Ready session and a reliable
\* device, one call at a time.  Either caller "a" starts with some list in
\* hand and no valve is selected, or nobody holds a list and the device has
\* any mask; a caller passes select_valves the list it holds.
InitMask ==
    /\ CodecOff /\ HelperOff
    /\ init_done = TRUE
    /\ pc = [c \in Callers |-> "idle"]
    /\ op = [c \in Callers |-> "none"]
    /\ arg = [c \in Callers |-> 0]
    /\ resp = [c \in Callers |-> NullFrame]
    /\ result = [c \in Callers |-> NullFrame]
    /\ cur = [c \in Callers |-> 0]
    /\ depth = [c \in Callers |-> 0]
    /\ outcome = [c \in Callers |-> NoOutcome]
    /\ xlog = [c \in Callers |-> <<>>]
    /\ budget = 0
    /\ ctor = "done"
    /\ attempts = 1
    /\ initlog = InitLogOK
    /\ settings = [c \in Callers |-> <<>>]
    /\ \/ /\ mask = 0
          /\ \E l \in FlagLists \cup MalformedLists \cup NonFlagLists :
                held = [c \in Callers |-> IF c = "a" THEN l ELSE <<>>]
       \/ /\ mask \in 0..255
          /\ held = [c \in Callers |-> <<>>]
    /\ expectBits = BitsOf(mask)
    /\ scen = -1

NextMask ==
    \/ \E c \in Callers : Alone(c) /\ CallSelectValves(c, held[c])
    \/ \E c \in Callers : Alone(c) /\ CallReadValvesState(c)
    \/ \E c \in Callers : Alone(c) /\ ReadValvesState(c)
    \/ \E c \in Callers : Alone(c) /\ Transfer(c)
    \/ \E c \in Callers : Alone(c) /\ HandleErrorResponse(c)
    \/ \E c \in Callers : Alone(c) /\ Return(c)

SpecMask == InitMask /\ [][NextMask]_vars

\* The three operations that write the selection mask, on a Ready session and
\* a reliable device, one call at a time, starting with no valve selected
NextSelection ==
    \/ \E c \in Callers, o \in TwoStepOps, v \in AllValveIds : Alone(c) /\ Call(c, o, v)
    \/ \E c \in Callers : Alone(c) /\ SelectionRead(c)
    \/ \E c \in Callers : Alone(c) /\ SelectionWrite(c)
    \/ \E c \in Callers : Alone(c) /\ CallSelectValves(c, held[c])
    \/ \E c \in Callers : Alone(c) /\ Transfer(c)
    \/ \E c \in Callers : Alone(c) /\ HandleErrorResponse(c)
    \/ \E c \in Callers : Alone(c) /\ Return(c)

\* the lists caller "a" may hold: valves 1..7, valves 1..3, one that is too
\* short and one with an element that is not a flag
SelectionLists ==
    {<<1, 1, 1, 1, 1, 1, 1, 0>>, <<1, 1, 1, 0, 0, 0, 0, 0>>, <<1, 1, 1, 0, 0, 0, 0>>,
     <<2, 0, 0, 0, 0, 0, 0, 0>>}

InitSelection ==
    /\ CodecOff /\ HelperOff
    /\ init_done = TRUE
    /\ mask = 0
    /\ pc = [c \in Callers |-> "idle"]
    /\ op = [c \in Callers |-> "none"]
    /\ arg = [c \in Callers |-> 0]
    /\ resp = [c \in Callers |-> NullFrame]
    /\ result = [c \in Callers |-> NullFrame]
    /\ cur = [c \in Callers |-> 0]
    /\ depth = [c \in Callers |-> 0]
    /\ outcome = [c \in Callers |-> NoOutcome]
    /\ xlog = [c \in Callers |-> <<>>]
    /\ expectBits = {}
    /\ scen = -1
    /\ budget = 0
    /\ ctor = "done"
    /\ attempts = 1
    /\ initlog = InitLogOK
    /\ \E l \in SelectionLists : held = [c \in Callers |-> IF c = "a" THEN l ELSE <<>>]
    /\ settings = [c \in Callers |-> <<>>]

SpecSelection == InitSelection /\ [][NextSelection]_vars

\* The settings operations on a Ready session, one call at a time.
\* configure_valves gets every setting with the four values at the ends of
\* its range, alone in the mapping, and some mappings of several entries.
Boundaries(name) ==
    {WidePred(VaemRanges[name][1]), VaemRanges[name][1],
     WidePred(VaemRanges[name][2]), VaemRanges[name][2]}

SingleEntryMappings ==
    {<<Entry(name, value)>> : name \in VaemRangesKeys, value \in
        UNION {Boundaries(n) : n \in VaemRangesKeys}}

SampleMappings ==
    {<<>>,
     <<Entry("ResponseTime", Wide(100)), Entry("InrushCurrent", Wide(300))>>,
     <<Entry("ResponseTime", Wide(100)), Entry("InrushCurrent", Wide(5))>>,
     <<Entry("InrushCurrent", Wide(5)), Entry("ResponseTime", Wide(100))>>,
     <<Entry("ResponseTime", Wide(100)), Entry("ControlWord", Wide(1))>>,
     <<Entry("NominalVoltage", Wide(24000)), Entry("HoldingCurrent", Wide(100)),
       Entry("PickUpTime", Wide(501))>>}

\* the order of the fields in a ValveSettings' __dict__
ValveSettingsFieldOrder ==
    <<"NominalVoltage", "ResponseTime", "TimeDelay", "PickUpTime", "InrushCurrent",
      "HitNHold", "HoldingCurrent">>

\* VaemIndex(value).name
VaemIndexName(value) == CHOOSE name \in VaemIndexNames : VaemIndex(name) = value

\* self.to_enum_dict().items(), as the loop of configure_valves takes them
EnumDictItems(self) ==
    [k \in 1..Len(ValveSettingsFieldOrder) |->
        LET index == FIELD_TO_ENUM[ValveSettingsFieldOrder[k]]
        IN  Entry(VaemIndexName(index), Wide(to_enum_dict(self)[index]))]

\* full settings records with every field in range: the defaults, and the
\* defaults with two fields given
SettingsRecords ==
    {EnumDictItems(ValveSettings(<<>>)),
     EnumDictItems(ValveSettings([ResponseTime |-> 1000, HoldingCurrent |-> 400]))}

Mappings ==
    {m \in SingleEntryMappings : m[1].value \in Boundaries(m[1].param)}
        \cup SampleMappings \cup SettingsRecords

\* the values handed to the dedicated setters: the ends of the ranges they
\* test and of the catalogued ones
SetterValues(o) ==
    IF o = "configure_valve_response_time"
    THEN {Wide(-1), Wide(0), Wide(1), WidePred(Two32), Two32}
    ELSE {Wide(19), Wide(20), Wide(999), Wide(1000), Wide(1001)}

SettingArguments == VaemRangesKeys \cup {"ControlWord"}

NextSettings ==
    \/ \E c \in Callers, v \in AllValveIds, m \in Mappings :
          Alone(c) /\ CallConfigureValves(c, v, m)
    \/ \E c \in Callers : Alone(c) /\ ConfigureValves(c)
    \/ \E c \in Callers, v \in AllValveIds, n \in SettingArguments :
          Alone(c) /\ CallReadValveConfiguration(c, v, n)
    \/ \E c \in Callers, o \in Setters, v \in ValveIds :
          \E x \in SetterValues(o) : Alone(c) /\ CallSetter(c, o, v, x)
    \/ \E c \in Callers : Alone(c) /\ Transfer(c)
    \/ \E c \in Callers : Alone(c) /\ HandleErrorResponse(c)
    \/ \E c \in Callers : Alone(c) /\ ClearError(c)
    \/ \E c \in Callers : Alone(c) /\ Return(c)

SpecSettings == Init /\ [][NextSettings]_vars

\* The construction of a session, and what becomes of the calls made on a
\* session that is not initialized: the construction raised before it set
\* the flag, and the caller goes on with the object all the same.  (The calls
\* on an initialized session are those of Spec.)
SessionCallers == {"a"}

SampleStates == {<<1, 1, 1, 0, 0, 0, 0, 0>>, <<1>>}

SampleMapping == <<Entry("ResponseTime", Wide(100))>>

InitSession ==
    /\ CodecOff /\ HelperOff
    /\ init_done = FALSE
    /\ mask = 0
    /\ pc = [c \in Callers |-> "idle"]
    /\ op = [c \in Callers |-> "none"]
    /\ arg = [c \in Callers |-> 0]
    /\ resp = [c \in Callers |-> NullFrame]
    /\ result = [c \in Callers |-> NullFrame]
    /\ cur = [c \in Callers |-> 0]
    /\ depth = [c \in Callers |-> 0]
    /\ outcome = [c \in Callers |-> NoOutcome]
    /\ xlog = [c \in Callers |-> <<>>]
    /\ expectBits = {}
    /\ scen = -1
    /\ budget = MaxFaults
    /\ ctor = "none"
    /\ attempts = 0
    /\ initlog = <<>>
    /\ held = [c \in Callers |-> <<>>]
    /\ settings = [c \in Callers |-> <<>>]

Uninitialized == ctor = "raised" /\ ~init_done

NextSession ==
    \/ \E c \in SessionCallers : CallInit(c)
    \/ \E c \in SessionCallers, ok \in BOOLEAN : Connect(c, ok)
    \/ \E c \in SessionCallers : VaemInit(c)
    \/ \E c \in SessionCallers : ClearError(c)
    \/ \E c \in SessionCallers : HandleErrorResponse(c)
    \/ \E c \in SessionCallers, o \in Ops, v \in ValveIds : Uninitialized /\ Call(c, o, v)
    \/ \E c \in SessionCallers, l \in SampleStates : Uninitialized /\ CallSelectValves(c, l)
    \/ \E c \in SessionCallers : Uninitialized /\ CallReadValvesState(c)
    \/ \E c \in SessionCallers : Uninitialized /\ CallConfigureValves(c, 1, SampleMapping)
    \/ \E c \in SessionCallers : ConfigureValves(c)
    \/ \E c \in SessionCallers :
          Uninitialized /\ CallReadValveConfiguration(c, 1, "ResponseTime")
    \/ \E c \in SessionCallers, o \in Setters : Uninitialized /\ CallSetter(c, o, 1, Wide(100))
    \/ \E c \in SessionCallers : Uninitialized /\ CallGetStatus(c)
    \/ \E c \in SessionCallers, expired \in BOOLEAN :
          Uninitialized /\ CallWaitForReadiness(c, expired)
    \/ \E c \in SessionCallers : Uninitialized /\ CallOpenValve(c)
    \/ \E c \in SessionCallers : Return(c)

SpecSession == InitSession /\ [][NextSession]_vars

-----------------------------------------------------------------------------
(* The status operations and open_valve on a Ready session *)

NextStatus ==
    \/ \E c \in Callers : Alone(c) /\ CallGetStatus(c)
    \/ \E c \in Callers, expired \in BOOLEAN : Alone(c) /\ CallWaitForReadiness(c, expired)
    \/ \E c \in Callers : Alone(c) /\ CallOpenValve(c)
    \/ \E c \in Callers : Alone(c) /\ Transfer(c)
    \/ \E c \in Callers : Alone(c) /\ HandleErrorResponse(c)
    \/ \E c \in Callers : Alone(c) /\ ClearError(c)
    \/ \E c \in Callers : Alone(c) /\ Return(c)

SpecStatus == Init /\ [][NextStatus]_vars

-----------------------------------------------------------------------------
(* The codec harness as a specification *)

DriverOff ==
    /\ init_done = FALSE
    /\ mask = 0
    /\ pc = [c \in Callers |-> "off"]
    /\ op = [c \in Callers |-> "none"]
    /\ arg = [c \in Callers |-> 0]
    /\ resp = [c \in Callers |-> NullFrame]
    /\ result = [c \in Callers |-> NullFrame]
    /\ cur = [c \in Callers |-> 0]
    /\ depth = [c \in Callers |-> 0]
    /\ outcome = [c \in Callers |-> NoOutcome]
    /\ xlog = [c \in Callers |-> <<>>]
    /\ expectBits = {}
    /\ scen = -1
    /\ budget = 0
    /\ ctor = "none"
    /\ attempts = 0
    /\ initlog = <<>>
    /\ held = [c \in Callers |-> <<>>]
    /\ settings = [c \in Callers |-> <<>>]

InitCodec == InitCodecVars /\ HelperOff /\ DriverOff

NextCodec ==
    \/ ToList
    \/ FromListOfToList
    \/ FromList

SpecCodec == InitCodec /\ [][NextCodec]_vars

-----------------------------------------------------------------------------
(* The helper harness as a specification *)

InitHelper == CodecOff /\ InitHelperVars /\ DriverOff

NextHelper ==
    \/ ParseStatusword
    \/ FromDict
    \/ ToEnumDict
    \/ ConstructFrame
    \/ DeconstructFrame

SpecHelper == InitHelper /\ [][NextHelper]_vars

-----------------------------------------------------------------------------
(* The frame codec: C1 - C4, under SpecCodec *)

\* C1: every frame whose fields fit their widths (access, dataType,
\* paramSubIndex, errorRet in 0..255, paramIndex in 0..65535, transferValue
\* in 64 bits) is encoded without error, and decoding the encoding gives the
\* frame back, field for field.
C1_RoundTrip ==
    /\ (cmode = "enc" /\ cstep # "start" /\ StructFits(cframe)) => cenc.exc = "none"
    /\ (cmode = "enc" /\ cstep = "decoded") =>
          /\ cdec.exc = "none"
          /\ cdec.val.access = cframe.access
          /\ cdec.val.dataType = cframe.dataType
          /\ cdec.val.paramIndex = cframe.paramIndex
          /\ cdec.val.paramSubIndex = cframe.paramSubIndex
          /\ cdec.val.errorRet = cframe.errorRet
          /\ cdec.val.transferValue = cframe.transferValue

\* a frame with four different non-zero digits in its value went round
C1_Witness ==
    /\ cmode = "enc" /\ cstep = "decoded"
    /\ cframe.transferValue = <<65535, 4, 5, 6>>
    /\ cframe.access = 255 /\ cframe.paramIndex = 65535
    /\ cdec.val = cframe

KnownFrame == VaemRegisters(0, 1, 2, 0, 3, <<3, 4, 5, 6>>)

\* C2: to_list returns exactly 7 words, each in 0..65535: word0 is
\* access<<8 | dataType, word1 is paramIndex, word2 is
\* paramSubIndex<<8 | errorRet, words 3..6 are the 16-bit chunks of
\* transferValue from the most to the least significant; the frame
\* {0, 1, 2, 0, 3, 0x0003000400050006} encodes to [1, 2, 3, 3, 4, 5, 6].
C2_EncodingLayout ==
    (cmode = "enc" /\ cstep # "start" /\ StructFits(cframe)) =>
        /\ cenc.exc = "none"
        /\ Len(cenc.val) = 7
        /\ \A i \in 1..7 : cenc.val[i] \in 0..65535
        /\ cenc.val[1] = BitOr(cframe.access * 256, cframe.dataType)
        /\ cenc.val[2] = cframe.paramIndex
        /\ cenc.val[3] = BitOr(cframe.paramSubIndex * 256, cframe.errorRet)
        /\ \A k \in 1..4 : cenc.val[3 + k] = cframe.transferValue[k]
        /\ (cframe = KnownFrame => cenc.val = <<1, 2, 3, 3, 4, 5, 6>>)

C2_Witness ==
    /\ cmode = "enc" /\ cstep = "encoded"
    /\ cframe = KnownFrame
    /\ cenc.val = <<1, 2, 3, 3, 4, 5, 6>>

\* C3: from_list of a list of at least 6 words gives access and dataType the
\* high and low byte of word0, paramIndex word1, paramSubIndex and errorRet
\* the high and low byte of word2, and transferValue the last four words with
\* the last word least significant; [1, 2, 3, 4, 5, 6] decodes to
\* {0, 1, 2, 0, 3, 0x0003000400050006}.
C3_DecodingLayout ==
    (cmode = "dec" /\ cstep = "decoded" /\ Len(cwords) >= 6) =>
        LET n == Len(cwords)
        IN  /\ cdec.exc = "none"
            /\ cdec.val.access = cwords[1] \div 256
            /\ cdec.val.dataType = cwords[1] % 256
            /\ cdec.val.paramIndex = cwords[2]
            /\ cdec.val.paramSubIndex = cwords[3] \div 256
            /\ cdec.val.errorRet = cwords[3] % 256
            /\ cdec.val.transferValue =
                  <<cwords[n - 3], cwords[n - 2], cwords[n - 1], cwords[n]>>
            /\ (cwords = <<1, 2, 3, 4, 5, 6>> => cdec.val = KnownFrame)

C3_Witness ==
    /\ cmode = "dec" /\ cstep = "decoded"
    /\ cwords = <<1, 2, 3, 4, 5, 6>>
    /\ cdec = Returns(KnownFrame)

\* C4: from_list of a list of 0 to 5 words fails; it never returns a frame.
\* (The code fails on 0, 1 and 2 words and returns a frame for 3, 4 and 5.)
C4_ShortListFails ==
    (cmode = "dec" /\ cstep = "decoded" /\ Len(cwords) < 6) => cdec.exc # "none"

-----------------------------------------------------------------------------
(* The session: C5 under Spec (serialized callers), C6 under SpecRace *)

AllIdle == \A c \in Callers : pc[c] = "idle"
NoFaultYet == budget = MaxFaults

\* C5: with calls run one at a time, every exchange succeeding and no device
\* error, after any sequence of select_valve(v) / deselect_valve(v) calls the
\* device mask is the initial mask with bit v-1 set by each select and
\* cleared by each deselect, in call order, all other bits unchanged; from
\* mask 0, select 3 then select 7 gives 0x44 and then deselect 3 gives 0x40.
C5_SerializedSelection ==
    (AllIdle /\ NoFaultYet) =>
        /\ mask \in 0..255
        /\ BitsOf(mask) = expectBits
        /\ (scen = 1 => mask = 4)
        /\ (scen = 2 => mask = 68)
        /\ (scen = 3 => mask = 64)

C5_Witness == AllIdle /\ NoFaultYet /\ scen = 3 /\ mask = 64

\* the value of the last frame caller c sent, and the one it read before
LastSent(c) == xlog[c][Len(xlog[c])].req.transferValue

\* C6: select_valve / deselect_valve read and write the mask in two separate
\* exchanges with no lock across the gap: while one caller stands between
\* its read and its write another caller's exchange can take place, and the
\* write then carries the mask read earlier with the caller's bit changed,
\* whatever the mask has become.  An interleaving of two select_valve calls
\* on different valves that loses one of them is C6_LostUpdate.
C6_ReadModifyWriteGap ==
    \A c \in Callers :
        /\ \A d \in Callers \ {c} :
              (pc[c] = "write" /\ pc[d] = "read") => ENABLED SelectionRead(d)
        /\ \A d \in Callers \ {c} :
              (pc[c] = "write" /\ pc[d] = "write") => ENABLED SelectionWrite(d)
        /\ (pc[c] = "wrap" /\ op[c] = "select_valve") =>
              /\ Small64(LastSent(c)) \in 0..255
              /\ BitsOf(Small64(LastSent(c))) =
                    BitsOf(Small64(resp[c].transferValue)) \cup {arg[c] - 1}
        /\ (pc[c] = "wrap" /\ op[c] = "deselect_valve") =>
              /\ Small64(LastSent(c)) \in 0..255
              /\ BitsOf(Small64(LastSent(c))) =
                    BitsOf(Small64(resp[c].transferValue)) \ {arg[c] - 1}

\* both callers' select_valve calls on different valves returned without
\* error, and the mask holds only one of the two valves
C6_LostUpdate ==
    /\ \A c \in Callers :
          /\ pc[c] = "done" /\ op[c] = "select_valve"
          /\ outcome[c].kind = "returned" /\ outcome[c].val.errorRet = 0
    /\ \E c, d \in Callers :
          /\ arg[c] # arg[d]
          /\ (arg[c] - 1) \notin BitsOf(mask)
          /\ (arg[d] - 1) \in BitsOf(mask)

-----------------------------------------------------------------------------
(* The error policy of handle_error_response: C7 - C10, under Spec *)

\* the exchanges of caller c's call that are clear-errors writes sent by the
\* wrapper (an operation's own first transaction is not one of them)
RecoveryWrites(c) ==
    {i \in 2..Len(xlog[c]) : xlog[c][i].req = ClearErrorFrame}

\* C7: every transaction of a public operation whose response carries a
\* nonzero error code (each of the two of select/deselect included) is
\* signalled to the caller and followed by a clear-errors write before the
\* operation returns.
C7_DeviceErrorPolicy ==
    \A c \in Callers :
        (pc[c] = "done" /\ outcome[c].kind = "returned") =>
            \A i \in 1..Len(xlog[c]) :
                xlog[c][i].err > 0 =>
                    /\ \E j \in RecoveryWrites(c) : j > i
                    /\ outcome[c].val.errorRet # 0

\* C8: after a device error the operation sends exactly one clear-errors
\* write and returns: no second clear-errors write, no unbounded recursion,
\* even when the clear-errors write is itself answered with an error.
C8_OneClearWrite ==
    \A c \in Callers :
        pc[c] = "done" =>
            /\ Cardinality(RecoveryWrites(c)) <= 1
            /\ depth[c] <= 1

\* C9: when the clear-errors write of the recovery itself fails (transport
\* failure, or an error in its response), the caller of the original
\* operation still receives that operation's result: nothing is raised.
C9_RecoveryBestEffort ==
    \A c \in Callers :
        (/\ pc[c] = "done"
         /\ \E i \in RecoveryWrites(c) : xlog[c][i].err # 0) =>
            outcome[c] = Returned(result[c])

\* C10: a response error code outside the table (e.g. 200) does not crash the
\* operation: the call returns, and the clear-errors recovery is sent as for
\* a listed code.
C10_UnlistedCode ==
    \A c \in Callers :
        (/\ pc[c] = "done"
         /\ result[c] # NullFrame
         /\ result[c].errorRet \notin error_codes) =>
            /\ outcome[c].kind = "returned"
            /\ RecoveryWrites(c) # {}

-----------------------------------------------------------------------------
(* Transport failure: C11, under Spec *)

\* the exchanges of caller c's call in which the client raised
FailedExchanges(c) == {i \in 1..Len(xlog[c]) : xlog[c][i].err = -1}

\* C11: when the exchange of a transaction fails, the transaction hands a
\* transport-failure signal with an empty result to its caller and raises
\* nothing, and the exchange is not tried again: no exchange of the call
\* follows the failed one.
C11_TransportFailure ==
    \A c \in Callers :
        \A i \in FailedExchanges(c) :
            /\ i = Len(xlog[c])
            /\ pc[c] = "done" => outcome[c].kind # "raised"

-----------------------------------------------------------------------------
(* Valve ids: C14, under SpecSelect *)

\* C14: for valve_id in 1..8 the bit select_valve / deselect_valve use is
\* 1 << (valve_id - 1) (valve 3 -> 0x04): the mask written is the mask read
\* with that bit set, respectively cleared; for a valve_id outside 1..8 the
\* call fails with ValueError and nothing is exchanged.
C14_ValveIdValidation ==
    /\ vaemValveIndex(3) = 4
    /\ \A c \in Callers :
          (op[c] \in TwoStepOps /\ arg[c] \in 1..8) =>
              /\ vaemValveIndex(arg[c]) = Pow2(arg[c] - 1)
              /\ pc[c] \in {"wrap", "done"} =>
                    /\ Len(xlog[c]) = 2
                    /\ Small64(LastSent(c)) \in 0..255
                    /\ BitsOf(Small64(LastSent(c))) =
                          IF op[c] = "select_valve"
                          THEN BitsOf(Small64(resp[c].transferValue)) \cup {arg[c] - 1}
                          ELSE BitsOf(Small64(resp[c].transferValue)) \ {arg[c] - 1}
    /\ \A c \in Callers :
          (op[c] \in TwoStepOps /\ arg[c] \notin 1..8) =>
              /\ pc[c] = "done"
              /\ outcome[c] = Raised("ValueError")
              /\ xlog[c] = <<>>

\* valve 3 was selected (mask 0x04) and a call with valve id 9 was refused
\* with nothing sent
C14_Witness ==
    /\ mask = 4
    /\ \E c \in Callers :
          /\ op[c] = "deselect_valve" /\ arg[c] = 9
          /\ pc[c] = "done" /\ outcome[c] = Raised("ValueError")
          /\ xlog[c] = <<>>

-----------------------------------------------------------------------------
(* Lists of valve states: C18 - C20, under SpecMask *)

\* C18: select_valves with a list whose length is not 8 is rejected with a
\* validation error that reaches the caller (the call raises), and nothing is
\* exchanged.  (The code logs a message and returns None.)
C18_StateListLength ==
    \A c \in Callers :
        (op[c] = "select_valves" /\ Len(held[c]) # 8) =>
            /\ pc[c] = "done"
            /\ outcome[c].kind = "raised"
            /\ xlog[c] = <<>>

\* sum of states[i] * 2^i for i in 0..7, index 0 being valve 1
DirectSum(states) ==
    states[1] + 2 * states[2] + 4 * states[3] + 8 * states[4]
    + 16 * states[5] + 32 * states[6] + 64 * states[7] + 128 * states[8]

IsFlagList(states) == Len(states) = 8 /\ \A i \in 1..8 : states[i] \in {0, 1}

\* C19: for every list of 8 flags in ascending valve order the mask
\* select_valves computes (list reversed, parsed as a binary string) and
\* writes to SelectValve is the sum of states[i] * 2^i; [1,1,1,0,0,0,0,0]
\* gives 0x07.
C19_MaskFromOrderedStates ==
    \A c \in Callers :
        (op[c] = "select_valves" /\ IsFlagList(held[c])) =>
            /\ decimal_code(held[c]) = ReturnsInt(DirectSum(held[c]))
            /\ (held[c] = <<1, 1, 1, 0, 0, 0, 0, 0>> => decimal_code(held[c]).val = 7)
            /\ pc[c] \in {"wrap", "done"} =>
                  /\ Len(xlog[c]) >= 1
                  /\ xlog[c][1].req =
                        VaemRegisters(Write, UINT8, SelectValve, 0, 0, U64(DirectSum(held[c])))
                  /\ mask = DirectSum(held[c])

\* select_valves([1,1,1,0,0,0,0,0]) has written 0x07
C19_Witness ==
    \E c \in Callers :
        /\ op[c] = "select_valves" /\ pc[c] = "done"
        /\ held[c] = <<1, 1, 1, 0, 0, 0, 0, 0>>
        /\ outcome[c].kind = "returned"
        /\ LastSent(c) = U64(7)
        /\ mask = 7

\* C20: for every mask m in 0..255 the list read_valves_state returns has
\* exactly 8 flags, flag i being bit i of m (index 0 = valve 1), and
\* select_valves given that list writes exactly m.
C20_MaskStateRoundTrip ==
    \A c \in Callers :
        /\ (op[c] = "read_valves_state" /\ pc[c] = "done" /\ outcome[c] = ReturnedList) =>
              /\ Len(held[c]) = 8
              /\ \A i \in 0..7 : held[c][i + 1] = (mask \div Pow2(i)) % 2
              /\ decimal_code(held[c]) = ReturnsInt(mask)
        /\ (op[c] = "select_valves" /\ pc[c] \in {"wrap", "done"} /\ xlog[c] # <<>>) =>
              xlog[c][1].req = get_transfer_value(U64(decimal_code(held[c]).val), Write)

\* caller "b", who holds no list but the one read_valves_state gave it, has
\* read the mask 0xA5 and written it back with select_valves
C20_Witness ==
    /\ op["b"] = "select_valves" /\ pc["b"] = "done"
    /\ outcome["b"].kind = "returned"
    /\ held["b"] = <<1, 0, 1, 0, 0, 1, 0, 1>>
    /\ LastSent("b") = U64(165)
    /\ mask = 165

-----------------------------------------------------------------------------
(* Settings: C15 - C17, under SpecSettings *)

\* entry i of caller c's mapping is one configure_valves must refuse: it
\* names no setting, its value is outside the catalogued range, or the valve
\* id is outside 1..8
InvalidEntry(c, i) ==
    \/ settings[c][i].param \notin VaemRangesKeys
    \/ ~InRange(settings[c][i].value, VaemRanges[settings[c][i].param])
    \/ arg[c] \notin 1..8

\* C15: for every setting P with catalogued range [min, max) and every valve
\* id in 1..8, configure_valves(valve, {P: v}) is refused with a validation
\* error and no exchange when v = min - 1 or v = max, and sends one write
\* frame carrying v when v = min or v = max - 1.
C15_RangeBoundaries ==
    \A c \in Callers :
        (/\ op[c] = "configure_valves" /\ pc[c] = "done"
         /\ arg[c] \in 1..8
         /\ Len(settings[c]) = 1
         /\ settings[c][1].param \in VaemRangesKeys) =>
            LET P == settings[c][1].param
                v == settings[c][1].value
                min == VaemRanges[P][1]
                max == VaemRanges[P][2]
            IN  /\ v \in {WidePred(min), max} =>
                      /\ outcome[c] = Raised("ValueError")
                      /\ xlog[c] = <<>>
                /\ v \in {min, WidePred(max)} =>
                      /\ Len(xlog[c]) = 1
                      /\ xlog[c][1].req = create_setting_registers(P, arg[c] - 1, Write, v)

C17_ReadSettingValveId ==
    \A c \in Callers :
        (/\ op[c] = "read_valve_configuration" /\ pc[c] = "done"
         /\ settings[c][1].param \in VaemRangesKeys) =>
            /\ arg[c] \notin 1..8 =>
                  /\ outcome[c] = Raised("ValueError")
                  /\ xlog[c] = <<>>
            /\ arg[c] \in 1..8 =>
                  /\ Len(xlog[c]) >= 1
                  /\ xlog[c][1].req.access = Read
                  /\ xlog[c][1].req.paramIndex = VaemIndex(settings[c][1].param)
                  /\ xlog[c][1].req.paramSubIndex = arg[c] - 1

-----------------------------------------------------------------------------
(* Construction and the session that is not initialized: C12, C13, under
   SpecSession *)

\* the exchanges of the construction: those made so far while __init__
\* runs, those it made once it has ended
InitExchanges ==
    IF \E c \in Callers : op[c] = "__init__"
    THEN xlog[CHOOSE c \in Callers : op[c] = "__init__"]
    ELSE initlog

\* C12: the initialized flag is true only after the transport connected and
\* the operating-mode write (OperatingMode, 8-bit, OpMode1) followed by the
\* clear-errors write have both been sent and have succeeded; a failed
\* initialization raises ConnectionError, the flag stays false and no
\* transaction is sent afterwards.
C12_Initialization ==
    /\ init_done =>
          /\ Len(InitExchanges) >= 2
          /\ InitExchanges[1] = [req |-> OperatingModeFrame, err |-> 0]
          /\ InitExchanges[2] = [req |-> ClearErrorFrame, err |-> 0]
    /\ \A c \in Callers :
          (op[c] = "__init__" /\ pc[c] = "done" /\ outcome[c].kind = "raised") =>
              /\ outcome[c].exc = "ConnectionError"
              /\ ~init_done
    /\ ctor = "raised" => \A c \in Callers : xlog[c] = <<>>

\* C13: while the initialized flag is false every public operation is a
\* no-op: it returns the not-connected signal (None, after the warning
\* "No VAEM Connected") and nothing is exchanged.
C13_UninitializedNoOp ==
    \A c \in Callers :
        (~init_done /\ Constructed /\ pc[c] = "done") =>
            /\ outcome[c] = ReturnedNone
            /\ xlog[c] = <<>>

-----------------------------------------------------------------------------
(* The status word and the settings record: C21, C22, C24, under SpecHelper *)

\* bit k of the word w
Bit(w, k) == (w \div Pow2(k)) % 2

ValveKeys == <<"Valve1", "Valve2", "Valve3", "Valve4", "Valve5", "Valve6", "Valve7", "Valve8">>

StatusKeys == {"Status", "Error", "Readiness", "OperatingMode"} \cup {ValveKeys[n] : n \in 1..8}

Parsed == hfun = "parse_statusword" /\ hpc = "returned"

\* C21: for every 16-bit word w, parse_statusword(w) returns (it never fails)
\* Status = bit 0, Error = bit 3, Readiness = bit 4, OperatingMode = bits 6..7
\* (a value in 0..3) and ValveN = bit 7+N for N in 1..8; bits 1, 2 and 5 do
\* not influence the result.
C21_StatusWordLayout ==
    Parsed =>
        /\ DOMAIN hret = StatusKeys
        /\ hret.Status = Bit(harg, 0)
        /\ hret.Error = Bit(harg, 3)
        /\ hret.Readiness = Bit(harg, 4)
        /\ hret.OperatingMode = Bit(harg, 6) + 2 * Bit(harg, 7)
        /\ hret.OperatingMode \in 0..3
        /\ \A n \in 1..8 : hret[ValveKeys[n]] = Bit(harg, 7 + n)
        /\ hret = parse_statusword(harg - 2 * Bit(harg, 1) - 4 * Bit(harg, 2)
                                        - 32 * Bit(harg, 5))

\* a word with the three undefined bits, the error bit, both mode bits and
\* valve 8 set has been decoded
C21_Witness ==
    /\ Parsed
    /\ Bit(harg, 1) = 1 /\ Bit(harg, 2) = 1 /\ Bit(harg, 5) = 1
    /\ hret.Error = 1 /\ hret.OperatingMode = 3
    /\ hret.Valve8 = 1 /\ hret.Valve1 = 0

\* C22: decoding the status word 0x0119 yields status = 1, error = 0,
\* readiness = 1, valve1 = 1 and valve2..valve8 = 0.
C22_Decode0119 ==
    (Parsed /\ harg = 281) =>
        /\ hret.Status = 1
        /\ hret.Error = 0
        /\ hret.Readiness = 1
        /\ hret.Valve1 = 1
        /\ \A n \in 2..8 : hret[ValveKeys[n]] = 0

\* C22 amended: decoding the status word 0x0119 yields status = 1, error = 1
\* (bit 3 of 0x0119 is set), readiness = 1, valve1 = 1 and valve2..valve8 = 0.
C22_Decode0119ErrorSet ==
    (Parsed /\ harg = 281) =>
        /\ hret.Status = 1
        /\ hret.Error = 1
        /\ hret.Readiness = 1
        /\ hret.Valve1 = 1
        /\ \A n \in 2..8 : hret[ValveKeys[n]] = 0

\* 0x0119 has been decoded
C22_Witness == Parsed /\ harg = 281 /\ hret.Readiness = 1

\* the documented default of each field
DocumentedDefault ==
    [NominalVoltage |-> 24000, ResponseTime |-> 500, TimeDelay |-> 0, PickUpTime |-> 125,
     InrushCurrent |-> 300, HitNHold |-> 100, HoldingCurrent |-> 100]

\* the parameter identifier of each field
DocumentedIdentifier ==
    [NominalVoltage |-> 4, ResponseTime |-> 7, TimeDelay |-> 22, PickUpTime |-> 8,
     InrushCurrent |-> 5, HitNHold |-> 46, HoldingCurrent |-> 6]

\* the value a record built from the given fields is to have in field f
ExpectedField(given, f) == IF f \in DOMAIN given THEN given[f] ELSE DocumentedDefault[f]

\* C24: a ValveSettings record built from any partial (or empty) set of the
\* seven named fields has the supplied value for each given field and the
\* documented default for every other field, and to_enum_dict maps exactly
\* these seven fields to their parameter identifiers with those values.
C24_ValveSettingsDefaults ==
    /\ (hfun = "ValveSettings" /\ hpc = "built") =>
          /\ DOMAIN hret = DOMAIN DocumentedDefault
          /\ \A f \in DOMAIN DocumentedDefault : hret[f] = ExpectedField(harg, f)
    /\ (hfun = "ValveSettings" /\ hpc = "returned") =>
          /\ DOMAIN hret = {DocumentedIdentifier[f] : f \in DOMAIN DocumentedIdentifier}
          /\ \A f \in DOMAIN DocumentedIdentifier :
                hret[DocumentedIdentifier[f]] = ExpectedField(harg, f)

\* a record built from two given fields only has been converted: ResponseTime
\* and PickUpTime (among others) carry their defaults
C24_Witness ==
    /\ hfun = "ValveSettings" /\ hpc = "returned"
    /\ DOMAIN harg = {"NominalVoltage", "TimeDelay"}
    /\ harg["TimeDelay"] = 7
    /\ hret[7] = 500 /\ hret[8] = 125 /\ hret[22] = 7

-----------------------------------------------------------------------------
(* Status and open_valve on a Ready session: C23, C25, C28, under SpecStatus *)

\* the status word carried by the response the wrapper handed back to caller c
StatusWordRead(c) == result[c].transferValue[4]

\* C23: wait_for_readiness(timeout) ends returning a boolean: true only after
\* a status read reported readiness = 1, false only once the elapsed time
\* exceeds the timeout.  (Stated for the calls all of whose exchanges were
\* answered without error, on a Ready session.)
C23_WaitForReadiness ==
    \A c \in Callers :
        (/\ op[c] = "wait_for_readiness" /\ pc[c] = "done" /\ init_done
         /\ \A i \in 1..Len(xlog[c]) : xlog[c][i].err = 0) =>
            /\ outcome[c].kind \in {"returned_true", "returned_false"}
            /\ outcome[c].kind = "returned_true" =>
                  /\ xlog[c] # <<>>
                  /\ xlog[c][Len(xlog[c])].req =
                         VaemRegisters(Read, UINT16, StatusWord, 0, 0, U64(0))
                  /\ Bit(StatusWordRead(c), 4) = 1
            /\ outcome[c].kind = "returned_false" => arg[c] = 1

\* C25: in the Ready state open_valve terminates after sending exactly two
\* ControlWord writes (16-bit, subindex 0): first StartValves (0x01), then 0.
C25_OpenValve ==
    \A c \in Callers :
        (op[c] = "open_valve" /\ pc[c] = "done" /\ init_done) =>
            /\ outcome[c].kind # "raised"
            /\ Len(xlog[c]) = 2
            /\ xlog[c][1].req = VaemRegisters(Write, UINT16, ControlWord, 0, 0, U64(1))
            /\ xlog[c][2].req = VaemRegisters(Write, UINT16, ControlWord, 0, 0, U64(0))

\* C28: in the Ready state, when the status-word read succeeds with error
\* code 0, get_status returns parse_statusword of the 16-bit transfer value
\* of the response, and exactly one read frame on StatusWord was sent.
C28_GetStatus ==
    \A c \in Callers :
        (/\ op[c] = "get_status" /\ pc[c] = "done" /\ init_done
         /\ xlog[c] # <<>> /\ xlog[c][1].err = 0) =>
            /\ xlog[c] = <<[req |-> VaemRegisters(Read, UINT16, StatusWord, 0, 0, U64(0)),
                           err |-> 0]>>
            /\ outcome[c].kind = "returned_status"
            /\ outcome[c].val = parse_statusword(StatusWordRead(c))

-----------------------------------------------------------------------------
(* Construction: C26, under SpecSession *)

\* C26: construction makes at most two connection attempts and stops at the
\* first successful one; it raises ConnectionError exactly when both attempts
\* fail, and then the initialized flag is never set and no register
\* transaction is ever sent.
C26_ConnectionAttempts ==
    [][/\ attempts' \in {attempts, attempts + 1}
       /\ attempts' <= 2
       /\ init_done => attempts' = attempts
       /\ \A c \in Callers :
             (op'[c] = "__init__" /\ pc'[c] = "done" /\ pc[c] # "done") =>
                 (outcome'[c] = Raised("ConnectionError")
                     <=> (attempts' = 2 /\ ~init_done'))
       /\ (attempts = 2 /\ ~init_done) => ~init_done'
       /\ (attempts' = 2 /\ ~init_done') =>
             /\ initlog' = <<>>
             /\ \A c \in Callers : xlog'[c] = <<>>
      ]_vars

\* both attempts were refused and the constructor has raised: callers hold
\* an object whose flag is false
C26_Witness == ctor = "raised" /\ ~init_done /\ attempts = 2 /\ initlog = <<>>

-----------------------------------------------------------------------------
(* Settings records and the dedicated setters: C27, C29, under SpecSettings *)

\* the catalogued width of each setting (VaemDataType values)
DocumentedWidth ==
    [NominalVoltage |-> 2, ResponseTime |-> 3, TimeDelay |-> 3, PickUpTime |-> 3,
     InrushCurrent |-> 2, HitNHold |-> 3, HoldingCurrent |-> 2]

\* C27: configure_valves(v, settings) with v in 1..8 and a full settings
\* record, all seven fields in range, sends exactly seven write transactions,
\* one per field, each with the field's parameter identifier, paramSubIndex
\* v - 1, the catalogued width, errorRet 0 and the field's value.  (Stated
\* for the calls none of whose exchanges failed in the transport.)
C27_FullSettingsRecord ==
    \A c \in Callers :
        (/\ op[c] = "configure_valves" /\ pc[c] = "done"
         /\ arg[c] \in 1..8
         /\ settings[c] \in SettingsRecords
         /\ FailedExchanges(c) = {}) =>
            /\ Len(xlog[c]) = 7
            /\ \A f \in DOMAIN DocumentedIdentifier :
                  \E i \in 1..7 :
                      /\ settings[c][i].param = f
                      /\ \E k \in 1..Len(xlog[c]) :
                            xlog[c][k].req =
                                VaemRegisters(1, DocumentedWidth[f], DocumentedIdentifier[f],
                                              arg[c] - 1, 0, WideTo64(settings[c][i].value))

\* the catalogued ranges [min, max) of the two parameters with a setter
CataloguedRange(o) ==
    IF o = "configure_valve_response_time" THEN <<Wide(1), Two32>>
    ELSE <<Wide(20), Wide(1001)>>

\* C29: for every valve id in 1..8, configure_valve_response_time and
\* configure_valve_inrush_current accept exactly the values of the catalogued
\* range of their parameter (a write frame is sent) and refuse every other
\* value with a validation error and no exchange.
C29_SettersAgreeWithCatalogue ==
    \A c \in Callers :
        (op[c] \in Setters /\ pc[c] = "done" /\ init_done /\ arg[c] \in 1..8) =>
            IF InRange(settings[c][1].value, CataloguedRange(op[c]))
            THEN /\ xlog[c] # <<>>
                 /\ xlog[c][1].req.access = 1
                 /\ xlog[c][1].req.transferValue = WideTo64(settings[c][1].value)
            ELSE /\ outcome[c] = Raised("ValueError")
                 /\ xlog[c] = <<>>

-----------------------------------------------------------------------------
(* A failed read in select_valve / deselect_valve: C30, under Spec *)

\* caller c is in a select_valve / deselect_valve call whose first exchange,
\* the read of the mask, failed in the transport
ReadFailed(c) ==
    /\ op[c] \in TwoStepOps
    /\ xlog[c] # <<>>
    /\ xlog[c][1].req.access = Read
    /\ xlog[c][1].err = -1

\* C30: in select_valve and deselect_valve, when the transport exchange of
\* the read transaction fails, no write transaction is sent, and the device's
\* selection mask is left unchanged by the call.
C30_FailedReadSendsNoWrite ==
    [][\A c \in Callers :
          ReadFailed(c)' =>
              /\ Len(xlog'[c]) = 1
              /\ mask' = mask
      ]_vars

\* a select_valve call on a device with valves 1 and 8 selected has ended
\* after its read failed
C30_Witness ==
    \E c \in Callers :
        /\ ReadFailed(c) /\ op[c] = "select_valve" /\ arg[c] = 3
        /\ pc[c] = "done" /\ outcome[c] = Raised("ValueError")
        /\ mask = 129

-----------------------------------------------------------------------------
(* The width of the selection mask: C31, under SpecSelection *)

\* the write frames to SelectValve among the exchanges of caller c's call
SelectValveWrites(c) ==
    {i \in 1..Len(xlog[c]) :
        xlog[c][i].req.paramIndex = 19 /\ xlog[c][i].req.access = 1}

\* C31: every write frame to the SelectValve parameter sent by select_valve,
\* deselect_valve or select_valves carries a transferValue in 0..255, the
\* device's read responses carrying a mask in 0..255 and the states passed to
\* select_valves being 8 flags in {0, 1}.
C31_EightBitMask ==
    \A c \in Callers :
        (/\ op[c] \in {"select_valve", "deselect_valve", "select_valves"}
         /\ op[c] = "select_valves" => IsFlagList(held[c])
         /\ op[c] \in TwoStepOps => resp[c] = NullFrame \/ Small64(resp[c].transferValue) \in 0..255) =>
            \A i \in SelectValveWrites(c) :
                LET tv == xlog[c][i].req.transferValue
                IN  /\ tv[1] = 0 /\ tv[2] = 0 /\ tv[3] = 0
                    /\ tv[4] \in 0..255

\* select_valve(8) on a device with valves 1..7 selected has written 0xFF
C31_Witness ==
    \E c \in Callers :
        /\ op[c] = "select_valve" /\ arg[c] = 8
        /\ SelectValveWrites(c) = {2}
        /\ xlog[c][2].req.transferValue = <<0, 0, 0, 255>>
        /\ Small64(resp[c].transferValue) = 127

-----------------------------------------------------------------------------
(* The codecs of the two driver variants: C32, under SpecHelper *)

\* C32: for every frame, vaem's _construct_frame produces the same 7 words
\* as pyvaem's VaemRegisters.to_list, and for every word list of at least 6
\* words vaem's _deconstruct_frame yields the same six field values as
\* pyvaem's VaemRegisters.from_list.
C32_CodecsAgree ==
    /\ (hfun = "_construct_frame" /\ hpc = "returned") =>
          /\ hret = to_list(harg)
          /\ hret.exc = "none" => Len(hret.val) = 7
    /\ (hfun = "_deconstruct_frame" /\ hpc = "returned" /\ Len(harg) >= 6) =>
          /\ hret.exc = "none"
          /\ from_list(harg).exc = "none"
          /\ \A field \in {"access", "dataType", "paramIndex", "paramSubIndex",
                           "errorRet", "transferValue"} :
                hret.val[field] = from_list(harg).val[field]

\* the older codec has encoded the frame {0, 1, 2, 0, 3, 0x0003000400050006}
C32_Witness ==
    /\ hfun = "_construct_frame" /\ hpc = "returned"
    /\ harg = KnownFrame
    /\ hret = Returns(<<1, 2, 3, 3, 4, 5, 6>>)

-----------------------------------------------------------------------------
(* Consistency of the catalogue tables: C33, under SpecSettings *)

\* VaemDataType: the first value that no longer fits the type's width
\* (2^8, 2^16, 2^32)
TypeLimit(dataType) ==
    CASE dataType = UINT8 -> Wide(256)
      [] dataType = UINT16 -> Wide(65536)
      [] dataType = UINT32 -> Two32

\* every default of ValveSettings lies in the catalogued range of its parameter
DefaultsInRange ==
    \A field \in ValveSettingsFields :
        InRange(Wide(ValveSettingsDefault(field)), VaemRanges[field])

\* for every setting parameter, max - 1 fits the width of its wire data type
MaximaFitWidth ==
    \A name \in SettingDataTypeKeys :
        /\ name \in VaemRangesKeys
        /\ WideLess(WidePred(VaemRanges[name][2]), TypeLimit(SETTING_DATA_TYPES[name]))

\* a finished configure_valves call with the unmodified default record, none
\* of whose exchanges failed in the transport
DefaultRecordCall(c) ==
    /\ op[c] = "configure_valves" /\ pc[c] = "done"
    /\ arg[c] \in 1..8
    /\ settings[c] = EnumDictItems(ValveSettings(<<>>))
    /\ FailedExchanges(c) = {}

\* C33: every default value of ValveSettings lies inside the catalogued range
\* of its parameter, and for every setting parameter the largest admissible
\* value (max - 1) fits in the parameter's wire data-type width, so that
\* configure_valves with an unmodified default record is never rejected by
\* validation and never truncated on the wire: every default reaches the
\* device whole, in a write frame of its parameter.
C33_CatalogueConsistency ==
    /\ DefaultsInRange
    /\ MaximaFitWidth
    /\ \A c \in Callers :
          DefaultRecordCall(c) =>
              /\ outcome[c] # Raised("ValueError")
              /\ \A i \in 1..Len(settings[c]) :
                    \E k \in 1..Len(xlog[c]) :
                        /\ xlog[c][k].req.access = 1
                        /\ xlog[c][k].req.paramIndex = VaemIndex(settings[c][i].param)
                        /\ xlog[c][k].req.transferValue = WideTo64(settings[c][i].value)
                        /\ WideLess(settings[c][i].value, TypeLimit(xlog[c][k].req.dataType))

====
